---- MODULE Spec2Model ----
(***************************************************************************)
(* Rate-limited fetch pipeline of market_analyzer_tv:                      *)
(*   rate_limiter.py  RateLimiter (window counters, backoff, execute)      *)
(*   data_fetcher.py  DataFetcher (get_current_bar, get_analysis_with_cache)*)
(*   cache_manager.py / firestore_storage.py / gcs_storage.py  tiered cache*)
(* Time is the wall clock in seconds.  The reads of time.time() inside one *)
(* admission are separate reads of the variable clock; a fetcher step      *)
(* reads it once.                                                          *)
(***************************************************************************)
EXTENDS Integers, Sequences, FiniteSets, TLC

VARIABLES
    clock,          \* wall clock, seconds since the epoch
    enabled,        \* RateLimiter.enabled (config.enable_rate_limiting)
    state,          \* RateLimiter.state : RateLimitState
    lock,           \* holder of RateLimiter.lock, NoCaller when free
    pc,             \* per caller: where its execute call stands
    attempt,        \* per caller: loop variable of the retry loop
    invoked,        \* per caller: invocations of the operation in the current call
    slept,          \* per caller: backoff sleeps started in the current call
    wake,           \* per caller: earliest time its asyncio.sleep may return
    response,       \* per caller: what the operation answered last
    outcome,        \* per caller: how its last execute call ended
    callsLeft,      \* execute calls the callers may still issue
    ticksLeft,      \* times the clock may still move while nobody sleeps
    throttlesLeft,  \* throttling failures the provider may still answer
    admissions,     \* history, when kept: the times at which calls were admitted,
                    \* how many there were before the fetcher's current call, and
                    \* per caller the durations of its current call's backoff sleeps
    fpc,            \* where the fetcher's get_analysis_with_cache call stands
    bar,            \* the bar get_analysis_with_cache holds, None when it has none
    ohlcvFrom,      \* where the OHLCV values held or returned were read from
    result,         \* what the last get_analysis_with_cache call returned
    fetchesLeft,    \* get_analysis_with_cache calls that may still be issued
    keyInterval,    \* interval of the cache key: Interval.value
    cacheEnabled,   \* CacheManager.enabled (config.enable_cache)
    hot,            \* hot tier: day bucket -> document (bars, cached_at)
    cold,           \* cold tier: month bucket -> bars
    hotUp,          \* the hot tier has a client and answers
    coldUp,         \* the cold tier has a bucket and answers
    lastCall,       \* the last cache operation called directly: inputs and answer
    opsLeft,        \* cache operations and changes of a tier that may still happen
    puts            \* per task: where its put call stands, when puts run side by side

limiterVars == <<clock, enabled, state, lock, pc, attempt, invoked, slept, wake,
                 response, outcome, callsLeft, ticksLeft, throttlesLeft, admissions>>

cacheVars == <<keyInterval, cacheEnabled, hot, cold, hotUp, coldUp>>

opVars == <<lastCall, opsLeft, puts>>

fetcherVars == <<fpc, bar, ohlcvFrom, result, fetchesLeft, cacheVars, opVars>>

vars == <<limiterVars, fetcherVars>>

----------------------------------------------------------------------------
(* Bounds of the model *)

MaxCalls == 3
MaxTicks == 4
BackoffCalls == 2
BackoffThrottles == 7
FairThrottles == 5
MaxPerMinute == 1
MaxPerHour == 2
ShortTick == 59
LongTick == 3540
ReadGap == 1
FetchCalls == 3
FetchTicks == 3
MaxPutBars == 2
CacheOps == 3
CacheTicks == 1
GapOps == 3
MaxAggBars == 3
TierOps == 2
MigrateOps == 3
RestartOps == 4
MaxFieldLen == 2
TierTicks == 2
OutageCalls == 2
OutageTicks == 1
OutageOps == 2
SavingCalls == 2
SavingTicks == 2
SleepThrottles == 4
DayTick == 86400

(* Program constants *)

MinuteWindow == 60
HourWindow == 3600
MaxRetries == 5
InitialBackoff == 1
MaxBackoff == 60
BackoffMultiplier == 2
HotTierDays == 90
BarLookback == 3600
FallbackLookback == 86400
DaySeconds == 86400

\* the model starts at 23:00 of day 100
StartTime == 100 * DaySeconds + 23 * 3600 + 1800

Callers == {1, 2}
NoCaller == 0

\* the caller that is the data fetcher
Fetcher == 1

Max(a, b) == IF a >= b THEN a ELSE b
Min(a, b) == IF a <= b THEN a ELSE b

----------------------------------------------------------------------------
(* Error messages of the operation, as character sequences, and the        *)
(* classification execute applies to them.                                 *)

UpperCase == <<"A","B","C","D","E","F","G","H","I","J","K","L","M",
               "N","O","P","Q","R","S","T","U","V","W","X","Y","Z">>
LowerCase == <<"a","b","c","d","e","f","g","h","i","j","k","l","m",
               "n","o","p","q","r","s","t","u","v","w","x","y","z">>

LowerChar(c) ==
    IF \E i \in 1 .. 26 : UpperCase[i] = c
    THEN LowerCase[CHOOSE i \in 1 .. 26 : UpperCase[i] = c]
    ELSE c

Lower(s) == [i \in 1 .. Len(s) |-> LowerChar(s[i])]

Contains(s, sub) ==
    \E i \in 1 .. (Len(s) - Len(sub) + 1) : SubSeq(s, i, i + Len(sub) - 1) = sub

Msg429 == <<"H","T","T","P"," ","4","2","9">>
MsgRateLimit == <<"R","a","t","e"," ","L","i","m","i","t"," ","h","i","t">>
MsgTooMany == <<"T","o","o"," ","M","a","n","y"," ","R","e","q","u","e","s","t","s">>
MsgTimeout == <<"t","i","m","e","o","u","t">>

ErrorMessages == {Msg429, MsgRateLimit, MsgTooMany, MsgTimeout}

\* a classification that takes every failure for throttling
IsAnyError(e) == TRUE

IsRateLimitError(e) ==
    LET error_str == Lower(e)
    IN  \/ Contains(error_str, <<"4","2","9">>)
        \/ Contains(error_str, <<"r","a","t","e"," ","l","i","m","i","t">>)
        \/ Contains(error_str, <<"t","o","o"," ","m","a","n","y"," ",
                                 "r","e","q","u","e","s","t","s">>)

----------------------------------------------------------------------------
(* RateLimiter: the window counters *)

RateLimitState ==
    [requests_this_minute |-> 0, requests_this_hour |-> 0,
     minute_window_start |-> 0, hour_window_start |-> 0,
     consecutive_failures |-> 0, current_backoff |-> 0]

\* a minute window that is still open at exactly its length
ResetMinuteAfter(s, current_time) ==
    IF current_time - s.minute_window_start > MinuteWindow
    THEN [s EXCEPT !.requests_this_minute = 0,
                   !.minute_window_start = current_time]
    ELSE s

ResetMinute(s, current_time) ==
    IF current_time - s.minute_window_start >= MinuteWindow
    THEN [s EXCEPT !.requests_this_minute = 0,
                   !.minute_window_start = current_time]
    ELSE s

ResetHour(s, current_time) ==
    IF current_time - s.hour_window_start >= HourWindow
    THEN [s EXCEPT !.requests_this_hour = 0,
                   !.hour_window_start = current_time]
    ELSE s

ResetWindowsIfNeeded(s, current_time) ==
    ResetHour(ResetMinute(s, current_time), current_time)

\* the comparison of _can_make_request, after its reset
UnderCeilings(s) ==
    /\ s.requests_this_minute < MaxPerMinute
    /\ s.requests_this_hour < MaxPerHour

\* the value _calculate_wait_time returns, after its reset at an earlier
\* read; t is the read of time.time() inside the branch taken
WaitTime(s, t) ==
    IF s.current_backoff > 0 THEN s.current_backoff
    ELSE IF s.requests_this_minute >= MaxPerMinute
         THEN Max(0, MinuteWindow - (t - s.minute_window_start))
    ELSE IF s.requests_this_hour >= MaxPerHour
         THEN Max(0, HourWindow - (t - s.hour_window_start))
    ELSE 0

RecordRequest(s, current_time) ==
    LET r == ResetWindowsIfNeeded(s, current_time)
    IN  [r EXCEPT !.requests_this_minute = r.requests_this_minute + 1,
                  !.requests_this_hour = r.requests_this_hour + 1]

HandleSuccess(s) ==
    [s EXCEPT !.consecutive_failures = 0, !.current_backoff = 0]

\* a backoff that keeps doubling past the cap
HandleRateLimitErrorUncapped(s) ==
    LET n == s.consecutive_failures + 1
    IN  [s EXCEPT !.consecutive_failures = n,
                  !.current_backoff =
                      IF n = 1 THEN InitialBackoff
                      ELSE s.current_backoff * BackoffMultiplier]

\* a handler that also records the retry to come in the window counters
HandleRateLimitErrorCounted(s) ==
    LET n == s.consecutive_failures + 1
    IN  [s EXCEPT !.consecutive_failures = n,
                  !.requests_this_minute = @ + 1,
                  !.requests_this_hour = @ + 1,
                  !.current_backoff =
                      IF n = 1 THEN InitialBackoff
                      ELSE Min(s.current_backoff * BackoffMultiplier, MaxBackoff)]

HandleRateLimitError(s) ==
    LET n == s.consecutive_failures + 1
    IN  [s EXCEPT !.consecutive_failures = n,
                  !.current_backoff =
                      IF n = 1 THEN InitialBackoff
                      ELSE Min(s.current_backoff * BackoffMultiplier, MaxBackoff)]


----------------------------------------------------------------------------
(* RateLimiter.execute, one action per stretch between suspension points.  *)
(* pc: "idle"    no call in progress (outcome holds the last call's end)    *)
(*     "waiting" at `async with self.lock`, lock not yet acquired           *)
(*     "locked"  lock acquired, admission step not yet run                  *)
(*     "invoke"  admitted, at `await func()` of the retry loop              *)
(*     "sleep"   in `await asyncio.sleep(current_backoff)`                  *)
(*     "direct"  rate limiting disabled, at `await func()`                  *)

NoOutcome == [kind |-> "none"]
Returned(v) == [kind |-> "returned", value |-> v]
Refused == [kind |-> "RateLimitExceeded"]
Raised(e) == [kind |-> "raised", error |-> e]

NoResponse == [ok |-> TRUE, value |-> "none"]

\* the provider's figures at a time: they move with the clock
ProviderQuote(t) ==
    LET price == 10 + (t % 101)
    IN  [open |-> price, high |-> price + 2, low |-> price - 1,
         close |-> price + 1, volume |-> 100 + price]

\* Bar(timestamp, open, high, low, close, volume)
Bar(timestamp, q) ==
    [timestamp |-> timestamp, open |-> q.open, high |-> q.high, low |-> q.low,
     close |-> q.close, volume |-> q.volume]

\* what the operation handed to execute returns when it succeeds: the
\* fetcher's fetch() builds a bar stamped with the time of the call, its
\* fetch_analysis() returns the provider's analysis
OpValues(p) ==
    IF p = Fetcher /\ fpc = "bar" THEN {Bar(clock, ProviderQuote(clock))}
    ELSE IF p = Fetcher /\ fpc = "analysis" THEN {"analysis"}
    ELSE {"result"}

\* the messages the operation handed to execute can fail with: the
\* provider's calls fail with a throttling answer or a timeout
OpErrors(p) ==
    IF p = Fetcher /\ fpc # "idle" THEN {Msg429, MsgTimeout} ELSE ErrorMessages

\* what one invocation of the operation can do: return a value or raise
OpResults(p) ==
    {[ok |-> TRUE, value |-> v] : v \in OpValues(p)}
        \cup {[ok |-> FALSE, error |-> e] : e \in OpErrors(p)}

\* time that may pass between two reads of the clock inside one step
ReadGaps == {0, ReadGap}

\* execute is entered: line 143 chooses the path
EnterExecute(p) ==
    /\ pc' = [pc EXCEPT ![p] = IF enabled THEN "waiting" ELSE "direct"]
    /\ attempt' = [attempt EXCEPT ![p] = 0]
    /\ invoked' = [invoked EXCEPT ![p] = 0]
    /\ slept' = [slept EXCEPT ![p] = 0]
    /\ response' = [response EXCEPT ![p] = NoResponse]
    /\ outcome' = [outcome EXCEPT ![p] = NoOutcome]

\* the history as a new execute call of caller p begins
NewCall(p) == [admissions EXCEPT !.sleeps[p] = << >>]

\* a caller calls execute
Begin(p) ==
    /\ pc[p] = "idle"
    /\ callsLeft > 0
    /\ callsLeft' = callsLeft - 1
    /\ EnterExecute(p)
    /\ admissions' = NewCall(p)
    /\ UNCHANGED <<clock, enabled, state, lock, wake, ticksLeft, throttlesLeft>>
    /\ UNCHANGED fetcherVars

\* rate limiting disabled: `return await func(*args, **kwargs)`
ExecuteDisabled(p) ==
    /\ pc[p] = "direct"
    /\ \E r \in OpResults(p) :
          /\ response' = [response EXCEPT ![p] = r]
          /\ outcome' = [outcome EXCEPT ![p] =
                            IF r.ok THEN Returned(r.value) ELSE Raised(r.error)]
    /\ invoked' = [invoked EXCEPT ![p] = invoked[p] + 1]
    /\ pc' = [pc EXCEPT ![p] = "idle"]
    /\ UNCHANGED <<clock, enabled, admissions, state, lock, attempt, slept, wake,
                   callsLeft, ticksLeft, throttlesLeft>>
    /\ UNCHANGED fetcherVars

\* `async with self.lock`: the lock is taken when it is free
Acquire(p) ==
    /\ pc[p] = "waiting"
    /\ lock = NoCaller
    /\ lock' = p
    /\ pc' = [pc EXCEPT ![p] = "locked"]
    /\ UNCHANGED <<clock, enabled, admissions, state, attempt, invoked, slept, wake,
                   response, outcome, callsLeft, ticksLeft, throttlesLeft>>
    /\ UNCHANGED fetcherVars

\* the state and the verdict of lines 149-156, and the time of the last
\* read of the clock: _can_make_request reads it at tA; when it refuses,
\* _calculate_wait_time reads it at tB (its reset) and at tC (its branch);
\* _record_request reads it at tD
AdmissionResult(s, tA, tB, tC, tD) ==
    LET sA == ResetWindowsIfNeeded(s, tA)
        sB == ResetWindowsIfNeeded(sA, tB)
    IN  IF UnderCeilings(sA)
        THEN [admitted |-> TRUE, state |-> RecordRequest(sA, tD), now |-> tD]
        ELSE IF WaitTime(sB, tC) > 0
             THEN [admitted |-> FALSE, state |-> sB, now |-> tC]
             ELSE [admitted |-> TRUE, state |-> RecordRequest(sB, tD), now |-> tD]

\* the reads <<tA, tB, tC, tD>> one admission step can make from time t: two
\* reads when the ceilings let the call through, up to four otherwise
AdmissionReads(s, t) ==
    IF UnderCeilings(ResetWindowsIfNeeded(s, t))
    THEN {<<t, t, t, t + g>> : g \in ReadGaps}
    ELSE {<<t, t + g[1], t + g[1] + g[2], t + g[1] + g[2] + g[3]>> :
             g \in ReadGaps \X ReadGaps \X ReadGaps}

\* a lock that is kept through the invocation, and one that is never freed
LockKeptByCaller(p) == p
LockNeverFreed(p) == p

\* what leaving the body of `async with self.lock` puts in the lock
LockAfterAdmission(p) == NoCaller

\* lines 147-156: check the ceilings, record the request, release the lock
Admission(p) ==
    /\ pc[p] = "locked"
    /\ lock = p
    /\ \E t \in AdmissionReads(state, clock) :
          LET res == AdmissionResult(state, t[1], t[2], t[3], t[4])
              moved == (res.now - clock) \div ReadGap
          IN  /\ moved <= ticksLeft
              /\ ticksLeft' = ticksLeft - moved
              /\ clock' = res.now
              /\ state' = res.state
              /\ admissions' = IF admissions.kept /\ res.admitted
                               THEN [admissions EXCEPT !.times = Append(@, res.now)]
                               ELSE admissions
              /\ IF res.admitted
                 THEN /\ pc' = [pc EXCEPT ![p] = "invoke"]
                      /\ outcome' = outcome
                 ELSE /\ pc' = [pc EXCEPT ![p] = "idle"]
                      /\ outcome' = [outcome EXCEPT ![p] = Refused]
    /\ lock' = LockAfterAdmission(p)
    /\ UNCHANGED <<enabled, attempt, invoked, slept, wake, response, callsLeft,
                   throttlesLeft>>
    /\ UNCHANGED fetcherVars

\* lines 161-164: the operation returns
InvokeSuccess(p) ==
    /\ pc[p] = "invoke"
    /\ \E r \in {x \in OpResults(p) : x.ok} :
          /\ response' = [response EXCEPT ![p] = r]
          /\ outcome' = [outcome EXCEPT ![p] = Returned(r.value)]
    /\ invoked' = [invoked EXCEPT ![p] = invoked[p] + 1]
    /\ state' = HandleSuccess(state)
    /\ pc' = [pc EXCEPT ![p] = "idle"]
    /\ UNCHANGED <<clock, enabled, admissions, lock, attempt, slept, wake, callsLeft,
                   ticksLeft, throttlesLeft>>
    /\ UNCHANGED fetcherVars

\* a retry loop that goes on after the last attempt
RetryAllowedOnceMore(n) == n < MaxRetries

\* the retry loop goes on after a throttling failure at this attempt
RetryAllowed(n) == n < MaxRetries - 1

\* lines 166-179: the operation raises
InvokeFailure(p) ==
    /\ pc[p] = "invoke"
    /\ invoked' = [invoked EXCEPT ![p] = invoked[p] + 1]
    /\ \E r \in {x \in OpResults(p) : ~x.ok} :
          /\ response' = [response EXCEPT ![p] = r]
          /\ IF IsRateLimitError(r.error)
             THEN LET s1 == HandleRateLimitError(state)
                  IN  /\ throttlesLeft > 0
                      /\ throttlesLeft' = throttlesLeft - 1
                      /\ state' = s1
                      /\ IF RetryAllowed(attempt[p])
                         THEN /\ pc' = [pc EXCEPT ![p] = "sleep"]
                              /\ slept' = [slept EXCEPT ![p] = slept[p] + 1]
                              /\ wake' = [wake EXCEPT ![p] =
                                             clock + s1.current_backoff]
                              /\ attempt' = [attempt EXCEPT ![p] = attempt[p] + 1]
                              /\ outcome' = outcome
                              /\ admissions' =
                                     IF admissions.kept
                                     THEN [admissions EXCEPT !.sleeps[p] =
                                              Append(@, s1.current_backoff)]
                                     ELSE admissions
                         ELSE /\ pc' = [pc EXCEPT ![p] = "idle"]
                              /\ outcome' = [outcome EXCEPT ![p] = Raised(r.error)]
                              /\ UNCHANGED <<attempt, slept, wake, admissions>>
             ELSE /\ state' = state
                  /\ outcome' = [outcome EXCEPT ![p] = Raised(r.error)]
                  /\ pc' = [pc EXCEPT ![p] = "idle"]
                  /\ UNCHANGED <<attempt, slept, wake, throttlesLeft, admissions>>
    /\ UNCHANGED <<clock, enabled, lock, callsLeft, ticksLeft>>
    /\ UNCHANGED fetcherVars

\* asyncio.sleep returns once its duration has passed; `continue`
Wake(p) ==
    /\ pc[p] = "sleep"
    /\ clock >= wake[p]
    /\ wake' = [wake EXCEPT ![p] = 0]
    /\ response' = [response EXCEPT ![p] = NoResponse]
    /\ pc' = [pc EXCEPT ![p] = "invoke"]
    /\ UNCHANGED <<clock, enabled, admissions, state, lock, attempt, invoked, slept,
                   outcome, callsLeft, ticksLeft, throttlesLeft>>
    /\ UNCHANGED fetcherVars

Sleeping == {p \in Callers : pc[p] = "sleep" /\ wake[p] > clock}

\* time passes while nobody is in a backoff sleep
Tick ==
    /\ Sleeping = {}
    /\ ticksLeft > 0
    /\ ticksLeft' = ticksLeft - 1
    /\ \E d \in {ShortTick, LongTick} : clock' = clock + d
    /\ UNCHANGED <<enabled, admissions, state, lock, pc, attempt, invoked, slept, wake,
                   response, outcome, callsLeft, throttlesLeft>>
    /\ UNCHANGED fetcherVars

\* time passes while a caller is in a backoff sleep
SleepTick ==
    /\ Sleeping # {}
    /\ clock' = clock + ShortTick
    /\ UNCHANGED <<enabled, admissions, state, lock, pc, attempt, invoked, slept, wake,
                   response, outcome, callsLeft, ticksLeft, throttlesLeft>>
    /\ UNCHANGED fetcherVars

\* Python's None, and a list with nothing in it
None == << >>

\* no get_analysis_with_cache call has returned yet
NoResult == [pending |-> TRUE]

\* no cache operation has been called directly
NoOp == [op |-> "none"]

\* the tasks that call put side by side
PutTasks == {1, 2}

\* no task has called put
NoPuts == [t \in PutTasks |-> [pc |-> "idle"]]

\* no fetcher: only direct callers of execute
NoFetcher ==
    /\ fpc = "idle"
    /\ bar = None
    /\ ohlcvFrom = "none"
    /\ result = NoResult
    /\ fetchesLeft = 0
    /\ keyInterval = "5m"
    /\ cacheEnabled = TRUE
    /\ hot = << >>
    /\ cold = << >>
    /\ hotUp = TRUE
    /\ coldUp = TRUE
    /\ lastCall = NoOp
    /\ opsLeft = 0
    /\ puts = NoPuts

\* a fresh limiter and idle callers
InitLimiter ==
    /\ clock = StartTime
    /\ enabled \in BOOLEAN
    /\ state = RateLimitState
    /\ lock = NoCaller
    /\ pc = [p \in Callers |-> "idle"]
    /\ attempt = [p \in Callers |-> 0]
    /\ invoked = [p \in Callers |-> 0]
    /\ slept = [p \in Callers |-> 0]
    /\ wake = [p \in Callers |-> 0]
    /\ response = [p \in Callers |-> NoResponse]
    /\ outcome = [p \in Callers |-> NoOutcome]
    /\ admissions = [kept |-> FALSE, times |-> << >>, before |-> 0,
                     sleeps |-> [p \in Callers |-> << >>]]

CallerStep(p) ==
    \/ ExecuteDisabled(p)
    \/ Acquire(p)
    \/ Admission(p)
    \/ InvokeSuccess(p)
    \/ InvokeFailure(p)
    \/ Wake(p)

(* Spec: callers of execute over several window lengths, against a         *)
(* provider that answers or fails but does not throttle.                   *)

Init ==
    /\ InitLimiter
    /\ NoFetcher
    /\ callsLeft = MaxCalls
    /\ ticksLeft = MaxTicks
    /\ throttlesLeft = 0

Next ==
    \/ \E p \in Callers : Begin(p)
    \/ \E p \in Callers : ExecuteDisabled(p)
    \/ \E p \in Callers : Acquire(p)
    \/ \E p \in Callers : Admission(p)
    \/ \E p \in Callers : InvokeSuccess(p)
    \/ \E p \in Callers : InvokeFailure(p)
    \/ Tick

Spec == Init /\ [][Next]_vars

(* SpecWindows: the same callers, with the times of the admissions kept.   *)

InitWindows ==
    /\ clock = StartTime
    /\ enabled \in BOOLEAN
    /\ state = RateLimitState
    /\ lock = NoCaller
    /\ pc = [p \in Callers |-> "idle"]
    /\ attempt = [p \in Callers |-> 0]
    /\ invoked = [p \in Callers |-> 0]
    /\ slept = [p \in Callers |-> 0]
    /\ wake = [p \in Callers |-> 0]
    /\ response = [p \in Callers |-> NoResponse]
    /\ outcome = [p \in Callers |-> NoOutcome]
    /\ admissions = [kept |-> TRUE, times |-> << >>, before |-> 0,
                     sleeps |-> [p \in Callers |-> << >>]]
    /\ NoFetcher
    /\ callsLeft = MaxCalls
    /\ ticksLeft = MaxTicks
    /\ throttlesLeft = 0

SpecWindows == InitWindows /\ [][Next]_vars

(* SpecBackoff: callers of execute against a provider that throttles       *)
(* often; the clock moves only while a caller sleeps.                      *)

InitBackoff ==
    /\ InitLimiter
    /\ NoFetcher
    /\ callsLeft = BackoffCalls
    /\ ticksLeft = 0
    /\ throttlesLeft = BackoffThrottles

NextBackoff ==
    \/ \E p \in Callers : Begin(p)
    \/ \E p \in Callers : ExecuteDisabled(p)
    \/ \E p \in Callers : Acquire(p)
    \/ \E p \in Callers : Admission(p)
    \/ \E p \in Callers : InvokeSuccess(p)
    \/ \E p \in Callers : InvokeFailure(p)
    \/ \E p \in Callers : Wake(p)
    \/ SleepTick

SpecBackoff == InitBackoff /\ [][NextBackoff]_vars

(* SpecSleeps: the same callers and provider, with the durations of each   *)
(* call's backoff sleeps kept.                                             *)

InitSleeps ==
    /\ clock = StartTime
    /\ enabled \in BOOLEAN
    /\ state = RateLimitState
    /\ lock = NoCaller
    /\ pc = [p \in Callers |-> "idle"]
    /\ attempt = [p \in Callers |-> 0]
    /\ invoked = [p \in Callers |-> 0]
    /\ slept = [p \in Callers |-> 0]
    /\ wake = [p \in Callers |-> 0]
    /\ response = [p \in Callers |-> NoResponse]
    /\ outcome = [p \in Callers |-> NoOutcome]
    /\ admissions = [kept |-> TRUE, times |-> << >>, before |-> 0,
                     sleeps |-> [p \in Callers |-> << >>]]
    /\ NoFetcher
    /\ callsLeft = BackoffCalls
    /\ ticksLeft = 0
    /\ throttlesLeft = SleepThrottles

SpecSleeps == InitSleeps /\ [][NextBackoff]_vars

(* FairBackoff: one call by each caller against the same provider, under   *)
(* the event loop's scheduling: a runnable task is run, a free lock is     *)
(* handed to a waiter, time passes.                                        *)

InitFair ==
    /\ InitLimiter
    /\ NoFetcher
    /\ callsLeft = Cardinality(Callers)
    /\ ticksLeft = 0
    /\ throttlesLeft = FairThrottles

FairBackoff ==
    /\ InitFair
    /\ [][NextBackoff]_vars
    /\ \A p \in Callers : WF_vars(CallerStep(p)) /\ SF_vars(Acquire(p))
    /\ WF_vars(SleepTick)

----------------------------------------------------------------------------
(* The tiered cache, for one cache key.  A bar list is a sequence; None    *)
(* stands for an absent list.  Dates are taken in UTC and months as 30     *)
(* days long.                                                              *)

TimeRange(start_timestamp, end_timestamp) ==
    [start_timestamp |-> start_timestamp, end_timestamp |-> end_timestamp]

TimeRangeContains(r, timestamp) ==
    r.start_timestamp <= timestamp /\ timestamp <= r.end_timestamp

InRange(bars, r) ==
    SelectSeq(bars, LAMBDA b : TimeRangeContains(r, b.timestamp))

\* a sort that leaves the bars in the order given
SortBarsAsGiven(bars) == bars

RECURSIVE SortBars(_)
\* sorted(bars, key=timestamp): stable
SortBars(bars) ==
    IF bars = << >> THEN << >>
    ELSE LET n == Len(bars)
             b == bars[n]
             head == SortBars(SubSeq(bars, 1, n - 1))
             k == Cardinality({i \in 1 .. n - 1 : head[i].timestamp <= b.timestamp})
         IN  SubSeq(head, 1, k) \o <<b>> \o SubSeq(head, k + 1, n - 1)

\* one bar per timestamp, the first one listed
UniqueBarsFirst(bars) ==
    SelectSeq([i \in 1 .. Len(bars) |->
                  IF \E j \in 1 .. i - 1 : bars[j].timestamp = bars[i].timestamp
                  THEN None ELSE bars[i]],
              LAMBDA b : b # None)

\* {bar.timestamp: bar for bar in bars}.values(): one bar per timestamp, the
\* last one listed, in the order the timestamps first appear
UniqueBars(bars) ==
    LET lastWith(t) ==
            bars[CHOOSE i \in 1 .. Len(bars) :
                     /\ bars[i].timestamp = t
                     /\ \A j \in i + 1 .. Len(bars) : bars[j].timestamp # t]
        F[i \in 0 .. Len(bars)] ==
            IF i = 0 THEN << >>
            ELSE IF \E j \in 1 .. i - 1 : bars[j].timestamp = bars[i].timestamp
                 THEN F[i - 1]
                 ELSE Append(F[i - 1], lastWith(bars[i].timestamp))
    IN  F[Len(bars)]

\* FirestoreStorage._get_date_from_timestamp, as a day number
DayOf(timestamp) == timestamp \div DaySeconds

\* GCSStorage._get_month_from_timestamp, as a month number
MonthOf(timestamp) == timestamp \div (30 * DaySeconds)

RECURSIVE BucketBars(_, _, _, _)
\* the bars inside r of the buckets first .. last of a tier, bucket by bucket
\* (a bucket the tier does not hold adds nothing, so the walk goes from one
\* bucket held to the next)
BucketBars(bucketBars, r, first, last) ==
    LET held == {k \in DOMAIN bucketBars : first <= k /\ k <= last}
    IN  IF held = {} THEN << >>
        ELSE LET k == CHOOSE x \in held : \A y \in held : x <= y
             IN  InRange(bucketBars[k], r) \o BucketBars(bucketBars, r, k + 1, last)

\* a hot tier that answers although it is away
HotRetrieveAnyway(h, up, r) ==
    SortBars(BucketBars([d \in DOMAIN h |-> h[d].bars], r,
                        DayOf(r.start_timestamp), DayOf(r.end_timestamp)))

\* FirestoreStorage.retrieve
HotRetrieve(h, up, r) ==
    IF ~up THEN None
    ELSE SortBars(BucketBars([d \in DOMAIN h |-> h[d].bars], r,
                             DayOf(r.start_timestamp), DayOf(r.end_timestamp)))

\* FirestoreStorage.store: every day bucket touched is set to the bars given
\* for that day
HotStore(h, up, bars, current_time) ==
    IF ~up \/ bars = << >> THEN [ok |-> FALSE, hot |-> h]
    ELSE LET days == {DayOf(bars[i].timestamp) : i \in 1 .. Len(bars)}
             doc(d) == [bars |-> SelectSeq(bars, LAMBDA b : DayOf(b.timestamp) = d),
                        cached_at |-> current_time]
         IN  [ok |-> TRUE,
              hot |-> [d \in DOMAIN h \cup days |->
                          IF d \in days THEN doc(d) ELSE h[d]]]

\* GCSStorage.retrieve
ColdRetrieve(c, cup, r) ==
    IF ~cup THEN None
    ELSE SortBars(BucketBars(c, r, MonthOf(r.start_timestamp), MonthOf(r.end_timestamp)))

\* a store that writes the bars given for a month over what the bucket held
ColdStoreOverwrite(c, cup, bars) ==
    IF ~cup \/ bars = << >> THEN [ok |-> FALSE, cold |-> c]
    ELSE LET months == {MonthOf(bars[i].timestamp) : i \in 1 .. Len(bars)}
             month_bars(m) == SelectSeq(bars, LAMBDA b : MonthOf(b.timestamp) = m)
         IN  [ok |-> TRUE,
              cold |-> [m \in DOMAIN c \cup months |->
                           IF m \in months THEN SortBars(UniqueBars(month_bars(m)))
                           ELSE c[m]]]

\* GCSStorage.store: every month bucket touched is merged with the bars
\* given for that month
ColdStore(c, cup, bars) ==
    IF ~cup \/ bars = << >> THEN [ok |-> FALSE, cold |-> c]
    ELSE LET months == {MonthOf(bars[i].timestamp) : i \in 1 .. Len(bars)}
             existing(m) == IF m \in DOMAIN c THEN c[m] ELSE << >>
             month_bars(m) == SelectSeq(bars, LAMBDA b : MonthOf(b.timestamp) = m)
         IN  [ok |-> TRUE,
              cold |-> [m \in DOMAIN c \cup months |->
                           IF m \in months
                           THEN SortBars(UniqueBars(existing(m) \o month_bars(m)))
                           ELSE c[m]]]

\* CacheManager._is_hot_tier
IsHotTier(timestamp, now) == timestamp >= now - HotTierDays * DaySeconds

\* the bars of a list that a put at time now hands to the hot tier
HotPart(bars, now) == SelectSeq(bars, LAMBDA b : IsHotTier(b.timestamp, now))

\* the bars of a list that a put at time now hands to the cold tier
ColdPart(bars, now) == SelectSeq(bars, LAMBDA b : ~IsHotTier(b.timestamp, now))

\* a get that sorts what the tiers answer and returns it all
CacheGetAll(en, h, c, up, cup, r, now) ==
    IF ~en THEN None
    ELSE LET hot_bars == HotRetrieve(h, up, r)
             cutoff_timestamp == now - HotTierDays * DaySeconds
             cold_bars ==
                 IF r.start_timestamp < cutoff_timestamp
                 THEN ColdRetrieve(c, cup, TimeRange(r.start_timestamp,
                                                     Min(r.end_timestamp, cutoff_timestamp)))
                 ELSE None
         IN  SortBars(hot_bars \o cold_bars)

\* a get that asks the hot tier alone
CacheGetHotOnly(en, h, c, up, cup, r, now) ==
    IF ~en THEN None ELSE HotRetrieve(h, up, r)

\* CacheManager.get
CacheGet(en, h, c, up, cup, r, now) ==
    IF ~en THEN None
    ELSE LET hot_bars == HotRetrieve(h, up, r)
             cutoff_timestamp == now - HotTierDays * DaySeconds
             cold_bars ==
                 IF r.start_timestamp < cutoff_timestamp
                 THEN ColdRetrieve(c, cup, TimeRange(r.start_timestamp,
                                                     Min(r.end_timestamp, cutoff_timestamp)))
                 ELSE None
         IN  SortBars(UniqueBars(hot_bars \o cold_bars))

\* a put that gives up after a failed hot write
CachePutStopsAtFailure(en, h, c, up, cup, bars, now) ==
    IF ~en \/ bars = << >> THEN [ok |-> FALSE, hot |-> h, cold |-> c]
    ELSE LET hot_bars == SelectSeq(bars, LAMBDA b : IsHotTier(b.timestamp, now))
             cold_bars == SelectSeq(bars, LAMBDA b : ~IsHotTier(b.timestamp, now))
             hs == HotStore(h, up, hot_bars, now)
             cs == ColdStore(c, cup, cold_bars)
         IN  IF hot_bars # << >> /\ ~hs.ok
             THEN [ok |-> FALSE, hot |-> hs.hot, cold |-> c]
             ELSE [ok |-> (hot_bars # << >> => hs.ok) /\ (cold_bars # << >> => cs.ok),
                   hot |-> hs.hot, cold |-> cs.cold]

\* a put that stores whether or not caching is enabled
CachePutAlways(en, h, c, up, cup, bars, now) ==
    IF bars = << >> THEN [ok |-> FALSE, hot |-> h, cold |-> c]
    ELSE LET hot_bars == SelectSeq(bars, LAMBDA b : IsHotTier(b.timestamp, now))
             cold_bars == SelectSeq(bars, LAMBDA b : ~IsHotTier(b.timestamp, now))
             hs == HotStore(h, up, hot_bars, now)
             cs == ColdStore(c, cup, cold_bars)
         IN  [ok |-> (hot_bars # << >> => hs.ok) /\ (cold_bars # << >> => cs.ok),
              hot |-> hs.hot, cold |-> cs.cold]

\* CacheManager.put
CachePut(en, h, c, up, cup, bars, now) ==
    IF ~en \/ bars = << >> THEN [ok |-> FALSE, hot |-> h, cold |-> c]
    ELSE LET hot_bars == SelectSeq(bars, LAMBDA b : IsHotTier(b.timestamp, now))
             cold_bars == SelectSeq(bars, LAMBDA b : ~IsHotTier(b.timestamp, now))
             hs == HotStore(h, up, hot_bars, now)
             cs == ColdStore(c, cup, cold_bars)
         IN  [ok |-> (hot_bars # << >> => hs.ok) /\ (cold_bars # << >> => cs.ok),
              hot |-> hs.hot, cold |-> cs.cold]

----------------------------------------------------------------------------
(* DataFetcher.get_analysis_with_cache, for one symbol.                    *)
(* fpc: "idle"     no call in progress (result holds the last call's)      *)
(*      "bar"      in execute(fetch) of _fetch_from_api                    *)
(*      "analysis" in execute(fetch_analysis)                              *)

OHLCV == {"open", "high", "low", "close", "volume"}

\* cached_bars[0]
FirstBar(bars) == bars[1]

\* cached_bars[-1]
LastBar(bars) == bars[Len(bars)]

\* the dictionary of a fresh analysis, its indicator fields as one field
FreshResult(b, analysis) ==
    [open |-> b.open, close |-> b.close, high |-> b.high, low |-> b.low,
     volume |-> b.volume, indicators |-> analysis, from_cache |-> FALSE]

\* the text of the warning, as the number of minutes it names
CacheWarning(cache_age) == <<"Rate limit exceeded", cache_age \div 60>>

\* _get_cached_analysis_only
CachedAnalysisOnly(en, h, c, up, cup, now) ==
    LET cached_bars == CacheGet(en, h, c, up, cup,
                                TimeRange(now - FallbackLookback, now), now)
    IN  IF cached_bars # None
        THEN LET b == LastBar(cached_bars)
                 cache_age == now - b.timestamp
             IN  [open |-> b.open, close |-> b.close, high |-> b.high, low |-> b.low,
                  volume |-> b.volume, from_cache |-> TRUE,
                  cache_age_seconds |-> cache_age,
                  cache_warning |-> CacheWarning(cache_age)]
        ELSE [error |-> "Rate limit exceeded and no cached data available",
              from_cache |-> TRUE]

\* the empty dictionary of line 257
EmptyResult == << >>

\* what the variables hold once a call has returned r
Return(r) ==
    /\ result' = r
    /\ fpc' = "idle"
    /\ bar' = None
    /\ ohlcvFrom' = IF OHLCV \subseteq DOMAIN r
                    THEN IF r.from_cache THEN "cache" ELSE ohlcvFrom
                    ELSE "none"

\* a window of a day where get_current_bar looks back an hour
LookbackDay(now) == TimeRange(now - FallbackLookback, now)

\* a window that holds no time: a fetcher that never finds a cached bar
LookbackNothing(now) == TimeRange(now + 1, now)

\* the window get_current_bar looks the cache up in
LookbackRange(now) == TimeRange(now - BarLookback, now)

\* get_analysis_with_cache is called: get_current_bar looks the cache up
\* (lines 92-103) and either has its bar or goes to the provider (line 165)
StartAnalysis ==
    /\ fpc = "idle"
    /\ pc[Fetcher] = "idle"
    /\ fetchesLeft > 0
    /\ fetchesLeft' = fetchesLeft - 1
    /\ LET now == clock
           cached_bars == CacheGet(cacheEnabled, hot, cold, hotUp, coldUp,
                                   LookbackRange(now), now)
       IN  IF cached_bars # None
           THEN /\ bar' = LastBar(cached_bars)
                /\ ohlcvFrom' = "cache"
                /\ fpc' = "analysis"
           ELSE /\ bar' = None
                /\ ohlcvFrom' = "none"
                /\ fpc' = "bar"
    /\ result' = NoResult
    /\ admissions' = [NewCall(Fetcher) EXCEPT !.before = Len(admissions.times)]
    /\ EnterExecute(Fetcher)
    /\ UNCHANGED <<clock, enabled, state, lock, wake, callsLeft, ticksLeft,
                   throttlesLeft, cacheVars, opVars>>

\* execute(fetch) returned a bar: it is put in the cache (line 111) and the
\* analysis is asked for (line 218)
BarReturned ==
    /\ fpc = "bar"
    /\ pc[Fetcher] = "idle"
    /\ outcome[Fetcher].kind = "returned"
    /\ LET b == outcome[Fetcher].value
           put == CachePut(cacheEnabled, hot, cold, hotUp, coldUp, <<b>>, clock)
       IN  /\ bar' = b
           /\ hot' = put.hot
           /\ cold' = put.cold
    /\ ohlcvFrom' = "provider"
    /\ fpc' = "analysis"
    /\ EnterExecute(Fetcher)
    /\ admissions' = NewCall(Fetcher)
    /\ UNCHANGED <<clock, enabled, state, lock, wake, callsLeft, ticksLeft,
                   throttlesLeft, result, fetchesLeft, keyInterval,
                   cacheEnabled, hotUp,
                   coldUp, opVars>>

\* execute(fetch) raised: _fetch_from_api returns None (lines 169-171) and
\* the call answers from the cache alone (lines 203-205)
BarFailed ==
    /\ fpc = "bar"
    /\ pc[Fetcher] = "idle"
    /\ outcome[Fetcher].kind \in {"RateLimitExceeded", "raised"}
    /\ Return(CachedAnalysisOnly(cacheEnabled, hot, cold, hotUp, coldUp, clock))
    /\ UNCHANGED <<limiterVars, fetchesLeft, cacheVars, opVars>>

\* execute(fetch_analysis) returned: lines 221-248
AnalysisReturned ==
    /\ fpc = "analysis"
    /\ pc[Fetcher] = "idle"
    /\ outcome[Fetcher].kind = "returned"
    /\ Return(FreshResult(bar, outcome[Fetcher].value))
    /\ UNCHANGED <<limiterVars, fetchesLeft, cacheVars, opVars>>

\* execute(fetch_analysis) raised RateLimitExceeded: lines 250-253
AnalysisRefused ==
    /\ fpc = "analysis"
    /\ pc[Fetcher] = "idle"
    /\ outcome[Fetcher].kind = "RateLimitExceeded"
    /\ Return(CachedAnalysisOnly(cacheEnabled, hot, cold, hotUp, coldUp, clock))
    /\ UNCHANGED <<limiterVars, fetchesLeft, cacheVars, opVars>>

\* execute(fetch_analysis) raised the provider's failure: lines 255-257
AnalysisFailed ==
    /\ fpc = "analysis"
    /\ pc[Fetcher] = "idle"
    /\ outcome[Fetcher].kind = "raised"
    /\ Return(EmptyResult)
    /\ UNCHANGED <<limiterVars, fetchesLeft, cacheVars, opVars>>

\* most of an hour, or a day, passes while nobody is in a backoff sleep
Pause ==
    /\ Sleeping = {}
    /\ ticksLeft > 0
    /\ ticksLeft' = ticksLeft - 1
    /\ \E d \in {LongTick, DayTick} : clock' = clock + d
    /\ UNCHANGED <<enabled, admissions, state, lock, pc, attempt, invoked, slept, wake,
                   response, outcome, callsLeft, throttlesLeft>>
    /\ UNCHANGED fetcherVars

\* the hot tier stops or starts answering
HotTierFlips ==
    /\ hotUp' = ~hotUp
    /\ UNCHANGED <<limiterVars, fpc, bar, ohlcvFrom, result, fetchesLeft,
                   keyInterval, cacheEnabled, hot, cold, coldUp, opVars>>

(* SpecFetch: get_analysis_with_cache calls, one at a time, on a limiter   *)
(* nobody else uses, against a provider that answers or fails but does not *)
(* throttle (to the fetcher a call that ran out of retries is a failed     *)
(* call like any other).                                                   *)

InitFetch ==
    /\ InitLimiter
    /\ callsLeft = 0
    /\ ticksLeft = FetchTicks
    /\ throttlesLeft = 0
    /\ fpc = "idle"
    /\ bar = None
    /\ ohlcvFrom = "none"
    /\ result = NoResult
    /\ fetchesLeft = FetchCalls
    /\ keyInterval = "5m"
    /\ cacheEnabled \in BOOLEAN
    /\ hot = << >>
    /\ cold = << >>
    /\ hotUp = TRUE
    /\ coldUp = TRUE
    /\ lastCall = NoOp
    /\ opsLeft = 0
    /\ puts = NoPuts

NextFetch ==
    \/ StartAnalysis
    \/ BarReturned
    \/ BarFailed
    \/ AnalysisReturned
    \/ AnalysisRefused
    \/ AnalysisFailed
    \/ ExecuteDisabled(Fetcher)
    \/ Acquire(Fetcher)
    \/ Admission(Fetcher)
    \/ InvokeSuccess(Fetcher)
    \/ InvokeFailure(Fetcher)
    \/ Pause
    \/ HotTierFlips

SpecFetch == InitFetch /\ [][NextFetch]_vars

(* SpecSavings: get_analysis_with_cache calls with both tiers answering,   *)
(* the admissions of each call counted.                                    *)

InitSavings ==
    /\ clock = StartTime
    /\ enabled \in BOOLEAN
    /\ state = RateLimitState
    /\ lock = NoCaller
    /\ pc = [p \in Callers |-> "idle"]
    /\ attempt = [p \in Callers |-> 0]
    /\ invoked = [p \in Callers |-> 0]
    /\ slept = [p \in Callers |-> 0]
    /\ wake = [p \in Callers |-> 0]
    /\ response = [p \in Callers |-> NoResponse]
    /\ outcome = [p \in Callers |-> NoOutcome]
    /\ admissions = [kept |-> TRUE, times |-> << >>, before |-> 0,
                     sleeps |-> [p \in Callers |-> << >>]]
    /\ callsLeft = 0
    /\ ticksLeft = SavingTicks
    /\ throttlesLeft = 0
    /\ fpc = "idle"
    /\ bar = None
    /\ ohlcvFrom = "none"
    /\ result = NoResult
    /\ fetchesLeft = SavingCalls
    /\ keyInterval = "5m"
    /\ cacheEnabled \in BOOLEAN
    /\ hot = << >>
    /\ cold = << >>
    /\ hotUp = TRUE
    /\ coldUp = TRUE
    /\ lastCall = NoOp
    /\ opsLeft = 0
    /\ puts = NoPuts

NextSavings ==
    \/ StartAnalysis
    \/ BarReturned
    \/ BarFailed
    \/ AnalysisReturned
    \/ AnalysisRefused
    \/ AnalysisFailed
    \/ ExecuteDisabled(Fetcher)
    \/ Acquire(Fetcher)
    \/ Admission(Fetcher)
    \/ InvokeSuccess(Fetcher)
    \/ InvokeFailure(Fetcher)
    \/ Pause

SpecSavings == InitSavings /\ [][NextSavings]_vars

----------------------------------------------------------------------------
(* CacheManager.put and CacheManager.get called directly, for one cache    *)
(* key.  Each call runs without suspension: the tiers' clients are         *)
(* blocking calls inside coroutines that never await.                      *)

\* the cutoff between the tiers when the model starts
Cutoff0 == StartTime - HotTierDays * DaySeconds

\* timestamps of the bars put: an old one, and two of one day that are
\* recent at the start and old a day later; all three are of one month
ColdA == 5 * DaySeconds
CrossingA == Cutoff0 + 300
CrossingB == Cutoff0 + 600

CacheTimestamps == {ColdA, CrossingA, CrossingB}

\* the sets of figures a bar of a timestamp can carry: a bar of CrossingA is
\* put with one or the other
Versions(t) == IF t = CrossingA THEN {1, 2} ELSE {1}

VersionQuote(v) ==
    [open |-> 10 * v, high |-> 10 * v + 2, low |-> 10 * v - 1,
     close |-> 10 * v + 1, volume |-> 100 * v]

CacheBars ==
    UNION {{Bar(t, VersionQuote(v)) : v \in Versions(t)} : t \in CacheTimestamps}

\* the timestamps of a list are all different
DistinctTimestamps(bars) ==
    \A i, j \in 1 .. Len(bars) : bars[i].timestamp = bars[j].timestamp => i = j

\* the lists of bars a caller passes to put: bars of different timestamps
\* in any order
PutLists ==
    {bars \in UNION {[1 .. n -> CacheBars] : n \in 0 .. MaxPutBars} :
        DistinctTimestamps(bars)}

\* the ranges a caller asks get for
GetRanges(now) ==
    {TimeRange(0, now), TimeRange(0, CrossingA), TimeRange(CrossingA, now),
     TimeRange(CrossingB, CrossingB)}

\* CacheManager.put is called
Put(bars) ==
    /\ opsLeft > 0
    /\ opsLeft' = opsLeft - 1
    /\ LET put == CachePut(cacheEnabled, hot, cold, hotUp, coldUp, bars, clock)
       IN  /\ hot' = put.hot
           /\ cold' = put.cold
           /\ lastCall' = [op |-> "put", bars |-> bars, now |-> clock, ok |-> put.ok]
    /\ UNCHANGED <<limiterVars, fpc, bar, ohlcvFrom, result, fetchesLeft,
                   keyInterval, cacheEnabled, hotUp, coldUp, puts>>

\* CacheManager.get is called
Get(r) ==
    /\ opsLeft > 0
    /\ opsLeft' = opsLeft - 1
    /\ lastCall' = [op |-> "get", time_range |-> r, now |-> clock,
                    result |-> CacheGet(cacheEnabled, hot, cold, hotUp, coldUp, r, clock)]
    /\ UNCHANGED <<limiterVars, fpc, bar, ohlcvFrom, result, fetchesLeft, cacheVars,
                   puts>>

\* a tier stops or starts answering
TierFlips ==
    /\ opsLeft > 0
    /\ opsLeft' = opsLeft - 1
    /\ \/ hotUp' = ~hotUp /\ coldUp' = coldUp
       \/ coldUp' = ~coldUp /\ hotUp' = hotUp
    /\ UNCHANGED <<limiterVars, fpc, bar, ohlcvFrom, result, fetchesLeft,
                   keyInterval, cacheEnabled, hot, cold, lastCall, puts>>

\* a day passes
DayPasses ==
    /\ ticksLeft > 0
    /\ ticksLeft' = ticksLeft - 1
    /\ clock' = clock + DayTick
    /\ UNCHANGED <<enabled, admissions, state, lock, pc, attempt, invoked, slept, wake,
                   response, outcome, callsLeft, throttlesLeft>>
    /\ UNCHANGED fetcherVars

(* SpecCache: puts and gets on a cache that starts empty, while a day may  *)
(* pass and either tier may go away or come back.                          *)

InitCache ==
    /\ InitLimiter
    /\ enabled
    /\ callsLeft = 0
    /\ ticksLeft = CacheTicks
    /\ throttlesLeft = 0
    /\ fpc = "idle"
    /\ bar = None
    /\ ohlcvFrom = "none"
    /\ result = NoResult
    /\ fetchesLeft = 0
    /\ keyInterval = "5m"
    /\ cacheEnabled \in BOOLEAN
    /\ hot = << >>
    /\ cold = << >>
    /\ hotUp = TRUE
    /\ coldUp = TRUE
    /\ lastCall = NoOp
    /\ opsLeft = CacheOps
    /\ puts = NoPuts

NextCache ==
    \/ \E bars \in PutLists : Put(bars)
    \/ \E r \in GetRanges(clock) : Get(r)
    \/ TierFlips
    \/ DayPasses

SpecCache == InitCache /\ [][NextCache]_vars

(* SpecOutage: get_analysis_with_cache calls while either tier may go away *)
(* or come back between and during the calls.                              *)

InitOutage ==
    /\ InitLimiter
    /\ callsLeft = 0
    /\ ticksLeft = OutageTicks
    /\ throttlesLeft = 0
    /\ fpc = "idle"
    /\ bar = None
    /\ ohlcvFrom = "none"
    /\ result = NoResult
    /\ fetchesLeft = OutageCalls
    /\ keyInterval = "5m"
    /\ cacheEnabled = TRUE
    /\ hot = << >>
    /\ cold = << >>
    /\ hotUp = TRUE
    /\ coldUp = TRUE
    /\ lastCall = NoOp
    /\ opsLeft = OutageOps
    /\ puts = NoPuts

NextOutage ==
    \/ StartAnalysis
    \/ BarReturned
    \/ BarFailed
    \/ AnalysisReturned
    \/ AnalysisRefused
    \/ AnalysisFailed
    \/ ExecuteDisabled(Fetcher)
    \/ Acquire(Fetcher)
    \/ Admission(Fetcher)
    \/ InvokeSuccess(Fetcher)
    \/ InvokeFailure(Fetcher)
    \/ Pause
    \/ TierFlips

SpecOutage == InitOutage /\ [][NextOutage]_vars

----------------------------------------------------------------------------
(* CacheManager.put called by two tasks side by side, every call to a      *)
(* tier's client being a point where the other task may run: the commit of *)
(* the hot tier's batch, the download of a month's blob and its upload.    *)
(* puts[t].pc: "idle", "hot" before batch.commit, "cold_read" before the   *)
(* download of the next month's blob, "cold_write" before its upload,      *)
(* "done" with puts[t].ok the value returned.                              *)

\* the months of a list of bars, in the order they first appear
MonthsOf(bars) ==
    LET F[i \in 0 .. Len(bars)] ==
            IF i = 0 THEN << >>
            ELSE IF \E j \in 1 .. Len(F[i - 1]) : F[i - 1][j] = MonthOf(bars[i].timestamp)
                 THEN F[i - 1]
                 ELSE Append(F[i - 1], MonthOf(bars[i].timestamp))
    IN  F[Len(bars)]

\* put is entered: lines 120-126 and 131-133
PutCall(t, bars) ==
    /\ puts[t].pc = "idle"
    /\ puts' = [puts EXCEPT ![t] =
          IF ~cacheEnabled \/ bars = << >>
          THEN [pc |-> "done", bars |-> bars, ok |-> FALSE]
          ELSE LET hot_bars == HotPart(bars, clock)
                   cold_bars == ColdPart(bars, clock)
               IN  [pc |-> IF hot_bars # << >> THEN "hot"
                           ELSE IF coldUp THEN "cold_read" ELSE "done",
                    bars |-> bars, hot_bars |-> hot_bars, cold_bars |-> cold_bars,
                    months |-> MonthsOf(cold_bars), existing_bars |-> << >>,
                    ok |-> hot_bars # << >> \/ coldUp]]
    /\ UNCHANGED <<limiterVars, fpc, bar, ohlcvFrom, result, fetchesLeft, cacheVars,
                   lastCall, opsLeft>>

\* hot_storage.store commits its batch and put goes on to the cold bars
PutHotCommit(t) ==
    /\ puts[t].pc = "hot"
    /\ LET hs == HotStore(hot, hotUp, puts[t].hot_bars, clock)
           cold_fails == puts[t].cold_bars # << >> /\ ~coldUp
       IN  /\ hot' = hs.hot
           /\ puts' = [puts EXCEPT
                  ![t].pc = IF puts[t].cold_bars # << >> /\ coldUp
                            THEN "cold_read" ELSE "done",
                  ![t].ok = hs.ok /\ ~cold_fails]
    /\ UNCHANGED <<limiterVars, fpc, bar, ohlcvFrom, result, fetchesLeft,
                   keyInterval, cacheEnabled, cold, hotUp, coldUp, lastCall, opsLeft>>

\* cold_storage.store reads what the blob of the next month holds
PutColdRead(t) ==
    /\ puts[t].pc = "cold_read"
    /\ puts' = [puts EXCEPT
           ![t].pc = "cold_write",
           ![t].existing_bars = IF Head(puts[t].months) \in DOMAIN cold
                                THEN cold[Head(puts[t].months)] ELSE << >>]
    /\ UNCHANGED <<limiterVars, fpc, bar, ohlcvFrom, result, fetchesLeft, cacheVars,
                   lastCall, opsLeft>>

\* cold_storage.store uploads the month's merged bars and goes on to the
\* next month, or returns
PutColdWrite(t) ==
    /\ puts[t].pc = "cold_write"
    /\ LET m == Head(puts[t].months)
           month_bars == SelectSeq(puts[t].cold_bars, LAMBDA b : MonthOf(b.timestamp) = m)
           sorted_bars == SortBars(UniqueBars(puts[t].existing_bars \o month_bars))
       IN  /\ cold' = [k \in DOMAIN cold \cup {m} |-> IF k = m THEN sorted_bars ELSE cold[k]]
           /\ puts' = [puts EXCEPT
                  ![t].months = Tail(puts[t].months),
                  ![t].existing_bars = << >>,
                  ![t].pc = IF Tail(puts[t].months) = << >> THEN "done" ELSE "cold_read"]
    /\ UNCHANGED <<limiterVars, fpc, bar, ohlcvFrom, result, fetchesLeft,
                   keyInterval, cacheEnabled, hot, hotUp, coldUp, lastCall, opsLeft>>

(* SpecPuts: one put by each of two tasks on an empty cache, and a get,    *)
(* while a day may pass.                                                   *)

InitPuts ==
    /\ InitLimiter
    /\ enabled
    /\ callsLeft = 0
    /\ ticksLeft = CacheTicks
    /\ throttlesLeft = 0
    /\ fpc = "idle"
    /\ bar = None
    /\ ohlcvFrom = "none"
    /\ result = NoResult
    /\ fetchesLeft = 0
    /\ keyInterval = "5m"
    /\ cacheEnabled \in BOOLEAN
    /\ hot = << >>
    /\ cold = << >>
    /\ hotUp = TRUE
    /\ coldUp = TRUE
    /\ lastCall = NoOp
    /\ opsLeft = 1
    /\ puts = NoPuts

NextPuts ==
    \/ \E t \in PutTasks, bars \in PutLists : PutCall(t, bars)
    \/ \E t \in PutTasks : PutHotCommit(t)
    \/ \E t \in PutTasks : PutColdRead(t)
    \/ \E t \in PutTasks : PutColdWrite(t)
    \/ \E r \in GetRanges(clock) : Get(r)
    \/ DayPasses

SpecPuts == InitPuts /\ [][NextPuts]_vars

----------------------------------------------------------------------------
(* CacheManager.find_gaps.  A gap is given as its time range.              *)

\* the values of Interval the model's cache keys have
Intervals == {"1m", "5m"}

\* CacheManager._get_interval_seconds
IntervalSeconds(interval) ==
    CASE interval = "1m" -> 60
      [] interval = "5m" -> 300
      [] interval = "15m" -> 900
      [] interval = "30m" -> 1800
      [] interval = "1h" -> 3600
      [] interval = "4h" -> 14400
      [] interval = "1d" -> 86400
      [] interval = "1w" -> 604800
      [] interval = "1M" -> 2592000
      [] OTHER -> 3600

\* sorted([bar.timestamp for bar in cached_bars])
SortedTimestamps(bars) ==
    LET sorted == SortBars(bars) IN [i \in 1 .. Len(bars) |-> sorted[i].timestamp]

\* a test for a gap that takes twice the interval for one
\* (cached_timestamps[i + 1] - cached_timestamps[i] >= interval_seconds * 2)
RECURSIVE MiddleGapsFromTwice(_, _, _)
MiddleGapsFromTwice(cached_timestamps, interval_seconds, i) ==
    IF i >= Len(cached_timestamps) THEN << >>
    ELSE (IF cached_timestamps[i + 1] - cached_timestamps[i] >= interval_seconds * 2
          THEN <<TimeRange(cached_timestamps[i] + interval_seconds,
                           cached_timestamps[i + 1] - interval_seconds)>>
          ELSE << >>)
             \o MiddleGapsFromTwice(cached_timestamps, interval_seconds, i + 1)

\* a search that reports no gap between cached bars
MiddleGapsNone(cached_timestamps, interval_seconds, i) == << >>

RECURSIVE MiddleGaps(_, _, _)
\* lines 193-203: the gaps between cached timestamps i, i + 1, ...
MiddleGaps(cached_timestamps, interval_seconds, i) ==
    IF i >= Len(cached_timestamps) THEN << >>
    ELSE (IF cached_timestamps[i + 1] - cached_timestamps[i] > interval_seconds * 2
          THEN <<TimeRange(cached_timestamps[i] + interval_seconds,
                           cached_timestamps[i + 1] - interval_seconds)>>
          ELSE << >>)
             \o MiddleGaps(cached_timestamps, interval_seconds, i + 1)

\* gaps whose leading one runs up to the first cached bar and holds it
GapsAroundUpToFirst(cached_bars, requested_range, interval) ==
    LET cached_timestamps == SortedTimestamps(cached_bars)
        n == Len(cached_timestamps)
    IN  (IF cached_timestamps[1] > requested_range.start_timestamp
         THEN <<TimeRange(requested_range.start_timestamp, cached_timestamps[1])>>
         ELSE << >>)
        \o MiddleGaps(cached_timestamps, IntervalSeconds(interval), 1)
        \o (IF cached_timestamps[n] < requested_range.end_timestamp
            THEN <<TimeRange(cached_timestamps[n] + 1, requested_range.end_timestamp)>>
            ELSE << >>)

\* lines 176-222: the gaps around and between the cached bars
GapsAround(cached_bars, requested_range, interval) ==
    LET cached_timestamps == SortedTimestamps(cached_bars)
        n == Len(cached_timestamps)
    IN  (IF cached_timestamps[1] > requested_range.start_timestamp
         THEN <<TimeRange(requested_range.start_timestamp, cached_timestamps[1] - 1)>>
         ELSE << >>)
        \o MiddleGaps(cached_timestamps, IntervalSeconds(interval), 1)
        \o (IF cached_timestamps[n] < requested_range.end_timestamp
            THEN <<TimeRange(cached_timestamps[n] + 1, requested_range.end_timestamp)>>
            ELSE << >>)

\* a find_gaps that reports no gap where nothing is cached
FindGapsNoneWhenEmpty(en, h, c, up, cup, requested_range, interval, now) ==
    IF ~en THEN <<requested_range>>
    ELSE LET cached_bars == CacheGet(en, h, c, up, cup, requested_range, now)
         IN  IF cached_bars = None THEN << >>
             ELSE GapsAround(cached_bars, requested_range, interval)

\* CacheManager.find_gaps
FindGapsOf(en, h, c, up, cup, requested_range, interval, now) ==
    IF ~en THEN <<requested_range>>
    ELSE LET cached_bars == CacheGet(en, h, c, up, cup, requested_range, now)
         IN  IF cached_bars = None THEN <<requested_range>>
             ELSE GapsAround(cached_bars, requested_range, interval)

\* timestamps of the bars put before gaps are looked for: recent ones of one
\* day, 300 s, 600 s and 600 s apart
GridStart == StartTime - 3000
GridTimestamps == {GridStart, GridStart + 300, GridStart + 900, GridStart + 1500}

RECURSIVE AscendingBars(_)
\* one bar for each timestamp of a set, in timestamp order
AscendingBars(T) ==
    IF T = {} THEN << >>
    ELSE LET t == CHOOSE x \in T : \A y \in T : y <= x
         IN  Append(AscendingBars(T \ {t}), Bar(t, VersionQuote(1)))

\* the lists of bars a caller passes to put before gaps are looked for
GapLists == {AscendingBars(T) : T \in SUBSET GridTimestamps}

\* the ranges a caller asks find_gaps for
GapRanges ==
    {TimeRange(a, b) : a \in {GridStart - 600, GridStart, GridStart + 300},
                       b \in {GridStart + 900, GridStart + 1500, GridStart + 2100}}

\* CacheManager.find_gaps is called
FindGaps(r) ==
    /\ opsLeft > 0
    /\ opsLeft' = opsLeft - 1
    /\ lastCall' = [op |-> "find_gaps", time_range |-> r, now |-> clock,
                    gaps |-> FindGapsOf(cacheEnabled, hot, cold, hotUp, coldUp, r,
                                        keyInterval, clock)]
    /\ UNCHANGED <<limiterVars, fpc, bar, ohlcvFrom, result, fetchesLeft, cacheVars,
                   puts>>

(* SpecGaps: puts, changes of a tier and calls of find_gaps on a cache     *)
(* that starts empty, for a key of one or another interval.                *)

InitGaps ==
    /\ InitLimiter
    /\ enabled
    /\ callsLeft = 0
    /\ ticksLeft = 0
    /\ throttlesLeft = 0
    /\ fpc = "idle"
    /\ bar = None
    /\ ohlcvFrom = "none"
    /\ result = NoResult
    /\ fetchesLeft = 0
    /\ keyInterval \in Intervals
    /\ cacheEnabled \in BOOLEAN
    /\ hot = << >>
    /\ cold = << >>
    /\ hotUp = TRUE
    /\ coldUp = TRUE
    /\ lastCall = NoOp
    /\ opsLeft = GapOps
    /\ puts = NoPuts

NextGaps ==
    \/ \E bars \in GapLists : Put(bars)
    \/ \E r \in GapRanges : FindGaps(r)
    \/ TierFlips

SpecGaps == InitGaps /\ [][NextGaps]_vars

----------------------------------------------------------------------------
(* CacheManager.aggregate_timeframe *)

RECURSIVE SumVolume(_)
\* sum(bar.volume for bar in bars)
SumVolume(bars) ==
    IF bars = << >> THEN 0 ELSE Head(bars).volume + SumVolume(Tail(bars))

\* an aggregate that takes the first bar's high and low for the bucket's
AggregateBarsOfFirst(bars, timestamp) ==
    [timestamp |-> timestamp, open |-> bars[1].open, high |-> bars[1].high,
     low |-> bars[1].low, close |-> bars[Len(bars)].close,
     volume |-> SumVolume(bars)]

\* CacheManager._aggregate_bars
AggregateBars(bars, timestamp) ==
    [timestamp |-> timestamp,
     open |-> bars[1].open,
     high |-> CHOOSE h \in {b.high : b \in {bars[i] : i \in 1 .. Len(bars)}} :
                  \A i \in 1 .. Len(bars) : bars[i].high <= h,
     low |-> CHOOSE l \in {b.low : b \in {bars[i] : i \in 1 .. Len(bars)}} :
                 \A i \in 1 .. Len(bars) : l <= bars[i].low,
     close |-> bars[Len(bars)].close,
     volume |-> SumVolume(bars)]

\* CacheManager.aggregate_timeframe: the loop of lines 292-308 as the groups
\* closed, the open group and its interval start (a list of one number, or
\* None) after i bars, then lines 311-312
AggregateTimeframe(source_bars, target_interval) ==
    IF source_bars = << >> THEN << >>
    ELSE LET target_seconds == IntervalSeconds(target_interval)
             sorted == SortBars(source_bars)
             F[i \in 0 .. Len(sorted)] ==
                 IF i = 0
                 THEN [aggregated |-> << >>, current_group |-> << >>,
                       current_interval_start |-> None]
                 ELSE LET prev == F[i - 1]
                          interval_start ==
                              (sorted[i].timestamp \div target_seconds) * target_seconds
                          start == IF prev.current_interval_start = None
                                   THEN interval_start
                                   ELSE prev.current_interval_start[1]
                      IN  IF interval_start = start
                          THEN [aggregated |-> prev.aggregated,
                                current_group |-> Append(prev.current_group, sorted[i]),
                                current_interval_start |-> <<start>>]
                          ELSE [aggregated |->
                                    IF prev.current_group # << >>
                                    THEN Append(prev.aggregated,
                                                AggregateBars(prev.current_group, start))
                                    ELSE prev.aggregated,
                                current_group |-> <<sorted[i]>>,
                                current_interval_start |-> <<interval_start>>]
             end == F[Len(sorted)]
         IN  IF end.current_group # << >>
             THEN Append(end.aggregated,
                         AggregateBars(end.current_group, end.current_interval_start[1]))
             ELSE end.aggregated

\* the start of an hour
AggStart == StartTime - 1800

\* timestamps of the source bars: two of one 5-minute interval, a third of
\* the same hour, one of the next hour
AggTimestamps == {AggStart, AggStart + 299, AggStart + 300, AggStart + 3600}

AggBars == {Bar(t, VersionQuote(v)) : t \in AggTimestamps, v \in {1, 2}}

\* twelve consecutive 5-minute bars of one hour, with figures of their own
TwelveBars ==
    [k \in 1 .. 12 |->
        [timestamp |-> AggStart + 300 * (k - 1),
         open |-> 99 + k, high |-> 120 + ((5 * (k - 1)) % 7),
         low |-> 90 - ((3 * (k - 1)) % 5), close |-> 104 + k, volume |-> 9 + k]]

\* the lists of bars a caller passes to aggregate_timeframe
SourceLists ==
    UNION {[1 .. n -> AggBars] : n \in 0 .. MaxAggBars}
        \cup {TwelveBars, [k \in 1 .. 12 |-> TwelveBars[13 - k]]}

\* the intervals a caller aggregates to
TargetIntervals == {"5m", "1h"}

\* CacheManager.aggregate_timeframe is called
Aggregate(source_bars, target_interval) ==
    /\ opsLeft > 0
    /\ opsLeft' = opsLeft - 1
    /\ lastCall' = [op |-> "aggregate_timeframe", source_bars |-> source_bars,
                    target_interval |-> target_interval,
                    result |-> AggregateTimeframe(source_bars, target_interval)]
    /\ UNCHANGED <<limiterVars, fpc, bar, ohlcvFrom, result, fetchesLeft, cacheVars,
                   puts>>

(* SpecAggregate: one call of aggregate_timeframe.                         *)

InitAggregate ==
    /\ InitLimiter
    /\ enabled
    /\ callsLeft = 0
    /\ ticksLeft = 0
    /\ throttlesLeft = 0
    /\ fpc = "idle"
    /\ bar = None
    /\ ohlcvFrom = "none"
    /\ result = NoResult
    /\ fetchesLeft = 0
    /\ keyInterval = "5m"
    /\ cacheEnabled = TRUE
    /\ hot = << >>
    /\ cold = << >>
    /\ hotUp = TRUE
    /\ coldUp = TRUE
    /\ lastCall = NoOp
    /\ opsLeft = 1
    /\ puts = NoPuts

NextAggregate ==
    \E source_bars \in SourceLists, target_interval \in TargetIntervals :
        Aggregate(source_bars, target_interval)

SpecAggregate == InitAggregate /\ [][NextAggregate]_vars

----------------------------------------------------------------------------
(* The tiers and the cache manager when a call to a tier's client may      *)
(* fail.  What an operation does is a record: raised (an exception leaves  *)
(* the operation), errored (a call to the client failed on the way), value *)
(* (what is returned when nothing is raised) and the tier as it is left.   *)

\* try: body / except Exception: return value
Try(body, value) ==
    IF body.raised THEN [body EXCEPT !.raised = FALSE, !.value = value] ELSE body

\* FirestoreStorage.store; fault: batch.commit fails (nothing of a batch is
\* written then)
HotStoreIO(h, up, bars, now, fault) ==
    IF ~up \/ bars = << >>
    THEN [raised |-> FALSE, errored |-> FALSE, value |-> FALSE, hot |-> h]
    ELSE Try(IF fault
             THEN [raised |-> TRUE, errored |-> TRUE, value |-> TRUE, hot |-> h]
             ELSE [raised |-> FALSE, errored |-> FALSE, value |-> TRUE,
                   hot |-> HotStore(h, TRUE, bars, now).hot],
             FALSE)

\* FirestoreStorage.retrieve; fault: a doc_ref.get fails
HotRetrieveIO(h, up, r, fault) ==
    IF ~up
    THEN [raised |-> FALSE, errored |-> FALSE, value |-> None, hot |-> h]
    ELSE Try(IF fault
             THEN [raised |-> TRUE, errored |-> TRUE, value |-> None, hot |-> h]
             ELSE [raised |-> FALSE, errored |-> FALSE,
                   value |-> HotRetrieve(h, TRUE, r), hot |-> h],
             None)

\* a delete that also takes the documents written exactly at the cutoff
DeleteOldDataUpTo(h, up, days, now, fault) ==
    IF ~up
    THEN [raised |-> FALSE, errored |-> FALSE, value |-> 0, hot |-> h]
    ELSE LET cutoff_timestamp == now - days * DaySeconds
             docs == {d \in DOMAIN h : h[d].cached_at <= cutoff_timestamp}
         IN  Try(IF fault
                 THEN [raised |-> TRUE, errored |-> TRUE, value |-> 0, hot |-> h]
                 ELSE [raised |-> FALSE, errored |-> FALSE,
                       value |-> Cardinality(docs),
                       hot |-> [d \in DOMAIN h \ docs |-> h[d]]],
                 0)

\* FirestoreStorage.delete_old_data; fault: the query or the commit of the
\* batch fails (the documents of one key fit one batch)
DeleteOldData(h, up, days, now, fault) ==
    IF ~up
    THEN [raised |-> FALSE, errored |-> FALSE, value |-> 0, hot |-> h]
    ELSE LET cutoff_timestamp == now - days * DaySeconds
             docs == {d \in DOMAIN h : h[d].cached_at < cutoff_timestamp}
         IN  Try(IF fault
                 THEN [raised |-> TRUE, errored |-> TRUE, value |-> 0, hot |-> h]
                 ELSE [raised |-> FALSE, errored |-> FALSE,
                       value |-> Cardinality(docs),
                       hot |-> [d \in DOMAIN h \ docs |-> h[d]]],
                 0)

RECURSIVE ColdStoreMonths(_, _, _, _, _)
\* the loop of GCSStorage.store over the months, lines 87-125; read_fails:
\* the months whose blob fails to download (caught inside the loop, the
\* month is then written as if it held nothing), write_fails: the months
\* whose upload fails (raised out of the loop)
ColdStoreMonths(c, bars, months, read_fails, write_fails) ==
    IF months = << >>
    THEN [raised |-> FALSE, errored |-> FALSE, value |-> TRUE, cold |-> c,
          attempted |-> {}]
    ELSE LET m == Head(months)
             read_failed == m \in DOMAIN c /\ m \in read_fails
             existing_bars == IF m \in DOMAIN c /\ ~read_failed THEN c[m] ELSE << >>
             month_bars == SelectSeq(bars, LAMBDA b : MonthOf(b.timestamp) = m)
             sorted_bars == SortBars(UniqueBars(existing_bars \o month_bars))
         IN  IF m \in write_fails
             THEN [raised |-> TRUE, errored |-> TRUE, value |-> TRUE, cold |-> c,
                   attempted |-> {m}]
             ELSE LET rest == ColdStoreMonths(
                                  [k \in DOMAIN c \cup {m} |->
                                      IF k = m THEN sorted_bars ELSE c[k]],
                                  bars, Tail(months), read_fails, write_fails)
                  IN  [rest EXCEPT !.errored = rest.errored \/ read_failed,
                                   !.attempted = rest.attempted \cup {m}]

\* GCSStorage.store
ColdStoreIO(c, cup, bars, read_fails, write_fails) ==
    IF ~cup \/ bars = << >>
    THEN [raised |-> FALSE, errored |-> FALSE, value |-> FALSE, cold |-> c,
          attempted |-> {}]
    ELSE Try(ColdStoreMonths(c, bars, MonthsOf(bars), read_fails, write_fails), FALSE)

\* GCSStorage.retrieve; read_fails: the months whose blob fails to download
\* (caught inside the loop, the month then adds nothing)
ColdRetrieveIO(c, cup, r, read_fails) ==
    IF ~cup
    THEN [raised |-> FALSE, errored |-> FALSE, value |-> None, cold |-> c]
    ELSE LET first == MonthOf(r.start_timestamp)
             last == MonthOf(r.end_timestamp)
             readable == [m \in DOMAIN c \ read_fails |-> c[m]]
         IN  Try([raised |-> FALSE,
                  errored |-> \E m \in DOMAIN c \cap read_fails : first <= m /\ m <= last,
                  value |-> SortBars(BucketBars(readable, r, first, last)),
                  cold |-> c],
                 None)

\* CacheManager.put, the tiers' clients failing as f says
CachePutIO(en, h, c, up, cup, bars, now, f) ==
    IF ~en \/ bars = << >>
    THEN [raised |-> FALSE, errored |-> FALSE, value |-> FALSE, hot |-> h, cold |-> c]
    ELSE LET hot_bars == SelectSeq(bars, LAMBDA b : IsHotTier(b.timestamp, now))
             cold_bars == SelectSeq(bars, LAMBDA b : ~IsHotTier(b.timestamp, now))
             hs == HotStoreIO(h, up, hot_bars, now, f.hot)
             cs == IF hs.raised
                   THEN [raised |-> FALSE, errored |-> FALSE, value |-> FALSE, cold |-> c]
                   ELSE ColdStoreIO(c, cup, cold_bars, f.read_fails, f.write_fails)
         IN  Try([raised |-> hs.raised \/ cs.raised,
                  errored |-> hs.errored \/ cs.errored,
                  value |-> (hot_bars # << >> => hs.value) /\ (cold_bars # << >> => cs.value),
                  hot |-> hs.hot, cold |-> cs.cold],
                 FALSE)

\* CacheManager.get, the tiers' clients failing as f says
CacheGetIO(en, h, c, up, cup, r, now, f) ==
    IF ~en
    THEN [raised |-> FALSE, errored |-> FALSE, value |-> None]
    ELSE LET hr == HotRetrieveIO(h, up, r, f.hot)
             cutoff_timestamp == now - HotTierDays * DaySeconds
             asked == ~hr.raised /\ r.start_timestamp < cutoff_timestamp
             cr == IF asked
                   THEN ColdRetrieveIO(c, cup, TimeRange(r.start_timestamp,
                                           Min(r.end_timestamp, cutoff_timestamp)),
                                       f.read_fails)
                   ELSE [raised |-> FALSE, errored |-> FALSE, value |-> None, cold |-> c]
         IN  Try([raised |-> hr.raised \/ cr.raised,
                  errored |-> hr.errored \/ cr.errored,
                  value |-> SortBars(UniqueBars(hr.value \o cr.value))],
                 None)

\* CacheManager.migrate_to_cold_tier
MigrateToColdTier(h, up, now, fault) ==
    Try(DeleteOldData(h, up, HotTierDays, now, fault), 0)

\* timestamps of the bars stored: two of one day of the first month and one
\* of the second month, which is recent when the model starts
TierA == ColdA
TierA2 == ColdA + 300
TierB == 35 * DaySeconds

TierBar(t) == Bar(t, VersionQuote(1))

\* the lists of bars handed to a tier or to put
TierLists ==
    {<< >>, <<TierBar(TierA)>>, <<TierBar(TierA2)>>,
     <<TierBar(TierA), TierBar(TierB)>>}

\* the ranges asked for: everything, and the first month's bars
TierRanges(now) == {TimeRange(0, now), TimeRange(TierA, TierA2)}

TierMonths == {MonthOf(TierA), MonthOf(TierB)}

\* the ways the clients may fail during one call: the hot tier's client or
\* not, the download of the first month's blob or not, one upload or none
Faults ==
    [hot : BOOLEAN, read_fails : SUBSET {MonthOf(TierA)},
     write_fails : {{}} \cup {{m} : m \in TierMonths}]

\* the same, for a call that reaches one tier or does not write
HotFaults == {f \in Faults : f.read_fails = {} /\ f.write_fails = {}}
ColdFaults == {f \in Faults : ~f.hot}
ReadFaults == {f \in Faults : f.write_fails = {}}

\* firestore_storage.store is called
HotStoreCall(bars, f) ==
    /\ opsLeft > 0
    /\ opsLeft' = opsLeft - 1
    /\ LET out == HotStoreIO(hot, hotUp, bars, clock, f.hot)
       IN  /\ hot' = out.hot
           /\ lastCall' = [op |-> "hot_store", bars |-> bars, now |-> clock,
                           raised |-> out.raised,
                           errored |-> out.errored, value |-> out.value]
    /\ UNCHANGED <<limiterVars, fpc, bar, ohlcvFrom, result, fetchesLeft,
                   keyInterval, cacheEnabled, cold, hotUp, coldUp, puts>>

\* firestore_storage.retrieve is called
HotRetrieveCall(r, f) ==
    /\ opsLeft > 0
    /\ opsLeft' = opsLeft - 1
    /\ LET out == HotRetrieveIO(hot, hotUp, r, f.hot)
       IN  lastCall' = [op |-> "hot_retrieve", time_range |-> r, now |-> clock,
                           raised |-> out.raised,
                        errored |-> out.errored, value |-> out.value]
    /\ UNCHANGED <<limiterVars, fpc, bar, ohlcvFrom, result, fetchesLeft, cacheVars,
                   puts>>

\* gcs_storage.store is called
ColdStoreCall(bars, f) ==
    /\ opsLeft > 0
    /\ opsLeft' = opsLeft - 1
    /\ LET out == ColdStoreIO(cold, coldUp, bars, f.read_fails, f.write_fails)
       IN  /\ cold' = out.cold
           /\ lastCall' = [op |-> "cold_store", bars |-> bars, now |-> clock,
                           faults |-> f, raised |-> out.raised,
                           errored |-> out.errored, value |-> out.value,
                           attempted |-> out.attempted]
    /\ UNCHANGED <<limiterVars, fpc, bar, ohlcvFrom, result, fetchesLeft,
                   keyInterval, cacheEnabled, hot, hotUp, coldUp, puts>>

\* gcs_storage.retrieve is called
ColdRetrieveCall(r, f) ==
    /\ opsLeft > 0
    /\ opsLeft' = opsLeft - 1
    /\ LET out == ColdRetrieveIO(cold, coldUp, r, f.read_fails)
       IN  lastCall' = [op |-> "cold_retrieve", time_range |-> r, now |-> clock,
                           raised |-> out.raised,
                        errored |-> out.errored, value |-> out.value]
    /\ UNCHANGED <<limiterVars, fpc, bar, ohlcvFrom, result, fetchesLeft, cacheVars,
                   puts>>

\* cache_manager.put is called
PutCallIO(bars, f) ==
    /\ opsLeft > 0
    /\ opsLeft' = opsLeft - 1
    /\ LET out == CachePutIO(cacheEnabled, hot, cold, hotUp, coldUp, bars, clock, f)
       IN  /\ hot' = out.hot
           /\ cold' = out.cold
           /\ lastCall' = [op |-> "put", bars |-> bars, now |-> clock,
                           raised |-> out.raised,
                           errored |-> out.errored, value |-> out.value]
    /\ UNCHANGED <<limiterVars, fpc, bar, ohlcvFrom, result, fetchesLeft,
                   keyInterval, cacheEnabled, hotUp, coldUp, puts>>

\* cache_manager.get is called
GetCallIO(r, f) ==
    /\ opsLeft > 0
    /\ opsLeft' = opsLeft - 1
    /\ LET out == CacheGetIO(cacheEnabled, hot, cold, hotUp, coldUp, r, clock, f)
       IN  lastCall' = [op |-> "get", time_range |-> r, now |-> clock,
                           raised |-> out.raised,
                        errored |-> out.errored, value |-> out.value]
    /\ UNCHANGED <<limiterVars, fpc, bar, ohlcvFrom, result, fetchesLeft, cacheVars,
                   puts>>

\* cache_manager.migrate_to_cold_tier is called
Migrate(f) ==
    /\ opsLeft > 0
    /\ opsLeft' = opsLeft - 1
    /\ LET out == MigrateToColdTier(hot, hotUp, clock, f.hot)
       IN  /\ hot' = out.hot
           /\ lastCall' = [op |-> "migrate", now |-> clock,
                           raised |-> out.raised,
                           errored |-> out.errored, value |-> out.value]
    /\ UNCHANGED <<limiterVars, fpc, bar, ohlcvFrom, result, fetchesLeft,
                   keyInterval, cacheEnabled, cold, hotUp, coldUp, puts>>

\* the length of the hot tier passes
HotTierPasses ==
    /\ ticksLeft > 0
    /\ ticksLeft' = ticksLeft - 1
    /\ clock' = clock + HotTierDays * DaySeconds
    /\ UNCHANGED <<enabled, admissions, state, lock, pc, attempt, invoked, slept, wake,
                   response, outcome, callsLeft, throttlesLeft>>
    /\ UNCHANGED fetcherVars

(* SpecTiers: calls of the tiers and of the cache manager on a cache that  *)
(* starts empty, any call to a client failing or not, while time passes.   *)
(* A tier has its client, or lacks it, from construction on.               *)

InitTiers ==
    /\ InitLimiter
    /\ enabled
    /\ callsLeft = 0
    /\ ticksLeft = TierTicks
    /\ throttlesLeft = 0
    /\ fpc = "idle"
    /\ bar = None
    /\ ohlcvFrom = "none"
    /\ result = NoResult
    /\ fetchesLeft = 0
    /\ keyInterval = "5m"
    /\ cacheEnabled = TRUE
    /\ hot = << >>
    /\ cold = << >>
    /\ hotUp \in BOOLEAN
    /\ coldUp \in BOOLEAN
    /\ lastCall = NoOp
    /\ opsLeft = TierOps
    /\ puts = NoPuts

NextTiers ==
    \/ \E bars \in TierLists, f \in HotFaults : HotStoreCall(bars, f)
    \/ \E r \in TierRanges(clock), f \in HotFaults : HotRetrieveCall(r, f)
    \/ \E bars \in TierLists, f \in ColdFaults : ColdStoreCall(bars, f)
    \/ \E r \in TierRanges(clock), f \in ColdFaults \cap ReadFaults : ColdRetrieveCall(r, f)
    \/ \E bars \in TierLists, f \in Faults : PutCallIO(bars, f)
    \/ \E r \in TierRanges(clock), f \in ReadFaults : GetCallIO(r, f)
    \/ \E f \in HotFaults : Migrate(f)
    \/ HotTierPasses

SpecTiers == InitTiers /\ [][NextTiers]_vars

(* SpecMigrate: stores into the hot tier, puts and calls of                *)
(* migrate_to_cold_tier while the length of the hot tier, or a day,        *)
(* passes.                                                                 *)

InitMigrate ==
    /\ InitLimiter
    /\ enabled
    /\ callsLeft = 0
    /\ ticksLeft = TierTicks
    /\ throttlesLeft = 0
    /\ fpc = "idle"
    /\ bar = None
    /\ ohlcvFrom = "none"
    /\ result = NoResult
    /\ fetchesLeft = 0
    /\ keyInterval = "5m"
    /\ cacheEnabled = TRUE
    /\ hot = << >>
    /\ cold = << >>
    /\ hotUp \in BOOLEAN
    /\ coldUp = TRUE
    /\ lastCall = NoOp
    /\ opsLeft = MigrateOps
    /\ puts = NoPuts

NextMigrate ==
    \/ \E bars \in TierLists, f \in HotFaults : HotStoreCall(bars, f)
    \/ \E bars \in TierLists, f \in HotFaults : PutCallIO(bars, f)
    \/ \E f \in HotFaults : Migrate(f)
    \/ HotTierPasses
    \/ DayPasses

SpecMigrate == InitMigrate /\ [][NextMigrate]_vars

(* SpecRestarts: puts, gets and calls of find_gaps by a process that may   *)
(* be started again with caching switched the other way, the tiers keeping *)
(* what they hold.                                                         *)

\* the process is started again: CacheManager.__init__ reads
\* config.enable_cache
Restart ==
    /\ opsLeft > 0
    /\ opsLeft' = opsLeft - 1
    /\ cacheEnabled' = ~cacheEnabled
    /\ lastCall' = [op |-> "restart"]
    /\ UNCHANGED <<limiterVars, fpc, bar, ohlcvFrom, result, fetchesLeft,
                   keyInterval, hot, cold, hotUp, coldUp, puts>>

InitRestarts ==
    /\ InitLimiter
    /\ enabled
    /\ callsLeft = 0
    /\ ticksLeft = 0
    /\ throttlesLeft = 0
    /\ fpc = "idle"
    /\ bar = None
    /\ ohlcvFrom = "none"
    /\ result = NoResult
    /\ fetchesLeft = 0
    /\ keyInterval \in Intervals
    /\ cacheEnabled \in BOOLEAN
    /\ hot = << >>
    /\ cold = << >>
    /\ hotUp = TRUE
    /\ coldUp = TRUE
    /\ lastCall = NoOp
    /\ opsLeft = RestartOps
    /\ puts = NoPuts

NextRestarts ==
    \/ \E bars \in TierLists : Put(bars)
    \/ \E r \in TierRanges(clock) : Get(r)
    \/ \E r \in TierRanges(clock) : FindGaps(r)
    \/ Restart

SpecRestarts == InitRestarts /\ [][NextRestarts]_vars

----------------------------------------------------------------------------
(* CacheKey.to_string and CacheKey.from_string.  A string is a sequence of *)
(* characters; an interval is named by its value.                          *)

\* the characters of the fields of a key: a letter and the separator
FieldChars == {"B", ":"}

\* the strings a field of a key may be
FieldStrings == UNION {[1 .. n -> FieldChars] : n \in 0 .. MaxFieldLen}

\* Interval.value, as characters
IntervalValue(interval) ==
    CASE interval = "1m" -> <<"1", "m">>
      [] interval = "5m" -> <<"5", "m">>

\* CacheKey(symbol, screener, exchange, interval)
CacheKeys ==
    [symbol : FieldStrings, screener : FieldStrings, exchange : FieldStrings,
     interval : Intervals]

\* CacheKey.to_string
KeyToString(k) ==
    k.screener \o <<":">> \o k.exchange \o <<":">> \o k.symbol \o <<":">>
        \o IntervalValue(k.interval)

\* key.split(":")
SplitAtColons(key) ==
    LET F[i \in 0 .. Len(key)] ==
            IF i = 0 THEN << << >> >>
            ELSE IF key[i] = ":" THEN Append(F[i - 1], << >>)
                 ELSE [F[i - 1] EXCEPT ![Len(F[i - 1])] = Append(@, key[i])]
    IN  F[Len(key)]

\* CacheKey.from_string: the key, or ValueError raised
KeyFromString(key) ==
    LET parts == SplitAtColons(key)
    IN  IF Len(parts) # 4 THEN [raised |-> TRUE, key |-> None]
        ELSE IF \A interval \in Intervals : IntervalValue(interval) # parts[4]
             THEN [raised |-> TRUE, key |-> None]
             ELSE [raised |-> FALSE,
                   key |-> [screener |-> parts[1], exchange |-> parts[2],
                            symbol |-> parts[3],
                            interval |-> CHOOSE interval \in Intervals :
                                             IntervalValue(interval) = parts[4]]]

\* a key is written as a string and the string parsed
RoundTrip(k) ==
    /\ opsLeft > 0
    /\ opsLeft' = opsLeft - 1
    /\ lastCall' = [op |-> "round_trip", key |-> k, text |-> KeyToString(k),
                    parsed |-> KeyFromString(KeyToString(k))]
    /\ UNCHANGED <<limiterVars, fpc, bar, ohlcvFrom, result, fetchesLeft, cacheVars,
                   puts>>

(* SpecKeys: one key written and parsed.                                   *)

InitKeys ==
    /\ InitLimiter
    /\ enabled
    /\ callsLeft = 0
    /\ ticksLeft = 0
    /\ throttlesLeft = 0
    /\ fpc = "idle"
    /\ bar = None
    /\ ohlcvFrom = "none"
    /\ result = NoResult
    /\ fetchesLeft = 0
    /\ keyInterval = "5m"
    /\ cacheEnabled = TRUE
    /\ hot = << >>
    /\ cold = << >>
    /\ hotUp = TRUE
    /\ coldUp = TRUE
    /\ lastCall = NoOp
    /\ opsLeft = 1
    /\ puts = NoPuts

NextKeys == \E k \in CacheKeys : RoundTrip(k)

SpecKeys == InitKeys /\ [][NextKeys]_vars

----------------------------------------------------------------------------
(* The interval of the cache key the data fetcher builds from the interval *)
(* string it is called with (get_current_bar, lines 79-89).                *)

\* the values of the members of Interval
IntervalValues == {"1m", "5m", "15m", "30m", "1h", "4h", "1d", "1w", "1M"}

\* the keys of STRING_INTERVAL_MAP
MapKeys == {"1m", "5m", "15m", "30m", "1h", "4h", "1d", "1W", "1M"}

\* STRING_INTERVAL_MAP.get(interval, Interval.ONE_DAY), as Interval.value
StringIntervalMap(interval) ==
    CASE interval = "1m" -> "1m"
      [] interval = "5m" -> "5m"
      [] interval = "15m" -> "15m"
      [] interval = "30m" -> "30m"
      [] interval = "1h" -> "1h"
      [] interval = "4h" -> "4h"
      [] interval = "1d" -> "1d"
      [] interval = "1W" -> "1w"
      [] interval = "1M" -> "1M"
      [] OTHER -> "1d"

\* the interval strings a caller passes: the members' values, the map's
\* keys and a string that is neither
IntervalStrings == IntervalValues \cup MapKeys \cup {"2h"}

\* get_current_bar builds its cache key
MakeKey(symbol, screener, exchange, interval) ==
    /\ opsLeft > 0
    /\ opsLeft' = opsLeft - 1
    /\ lastCall' = [op |-> "cache_key", interval |-> interval,
                    key |-> [symbol |-> symbol, screener |-> screener,
                             exchange |-> exchange,
                             interval |-> StringIntervalMap(interval)]]
    /\ UNCHANGED <<limiterVars, fpc, bar, ohlcvFrom, result, fetchesLeft, cacheVars,
                   puts>>

(* SpecIntervals: one cache key built.                                     *)

NextIntervals ==
    \E symbol, screener, exchange \in FieldStrings, interval \in IntervalStrings :
        MakeKey(symbol, screener, exchange, interval)

SpecIntervals == InitKeys /\ [][NextIntervals]_vars

----------------------------------------------------------------------------
(* Properties of RateLimiter.execute *)

\* messages of the operation that indicate throttling
ThrottlingMessages == {Msg429, MsgRateLimit, MsgTooMany}

\* the admission step of caller p is being taken
AdmissionStep(p) == enabled /\ pc[p] = "locked" /\ pc'[p] # "locked"

\* the operation is being invoked by caller p inside an admitted call
InvocationStep(p) == enabled /\ pc[p] = "invoke" /\ invoked'[p] = invoked[p] + 1

\* C1: with limiting enabled, inside one minute window (less than 60 s
\* after its start, the hour ceiling not reached) a call is admitted and
\* counted while fewer than max_per_minute were admitted, and the call made
\* when max_per_minute were admitted ends with RateLimitExceeded, without
\* an invocation and with both counters unchanged; the first call made 60 s
\* or more after the window's start, the hour ceiling not reached, is
\* admitted again and counted as the first of a new window.
C1_MinuteWindow ==
    [][\A p \in Callers :
          AdmissionStep(p) =>
              LET firstRead == clock - state.minute_window_start
                  lastRead == clock' - state.minute_window_start
                  hourAge == clock' - state.hour_window_start
                  hourOpen == state.requests_this_hour < MaxPerHour /\ hourAge < 3600
                  hourFree == state.requests_this_hour < MaxPerHour
                                  \/ clock - state.hour_window_start >= 3600
              IN  /\ (lastRead < 60 /\ hourOpen
                          /\ state.requests_this_minute < MaxPerMinute) =>
                        /\ pc'[p] = "invoke"
                        /\ state'.requests_this_minute = state.requests_this_minute + 1
                        /\ state'.requests_this_hour = state.requests_this_hour + 1
                  /\ (lastRead < 60 /\ hourOpen
                          /\ state.requests_this_minute = MaxPerMinute) =>
                        /\ pc'[p] = "idle"
                        /\ outcome'[p] = Refused
                        /\ invoked'[p] = 0
                        /\ state' = state
                  /\ (firstRead >= 60 /\ hourFree) =>
                        /\ pc'[p] = "invoke"
                        /\ state'.requests_this_minute = 1
    ]_vars

\* C1 witness: one caller was refused without an invocation and, a full
\* window after the start, the other was admitted as the first of a new
\* minute window.
C1_Witness ==
    \E p, q \in Callers :
        /\ enabled
        /\ pc[p] = "idle" /\ outcome[p] = Refused /\ invoked[p] = 0
        /\ pc[q] = "invoke"
        /\ state.requests_this_minute = 1
        /\ state.requests_this_hour = 2
        /\ state.minute_window_start >= StartTime + 60

\* C2: with limiting enabled, requests_this_minute never exceeds
\* max_per_minute and requests_this_hour never exceeds max_per_hour.
C2_Ceilings ==
    enabled =>
        /\ state.requests_this_minute <= MaxPerMinute
        /\ state.requests_this_hour <= MaxPerHour

\* C3: current_backoff is the element of 1, 2, 4, 8, 16, 32, 60, 60, ...
\* numbered by consecutive_failures (0 when there are none); every
\* throttling failure moves one element on, across calls, and every
\* successful invocation puts both fields back to 0.
C3_BackoffOf(n) ==
    IF n = 0 THEN 0
    ELSE IF n <= 7 THEN <<1, 2, 4, 8, 16, 32, 60>>[n]
    ELSE 60

C3_Backoff ==
    /\ [](state.current_backoff = C3_BackoffOf(state.consecutive_failures))
    /\ [][\A p \in Callers :
             InvocationStep(p) =>
                 /\ response'[p].ok =>
                       /\ state'.consecutive_failures = 0
                       /\ state'.current_backoff = 0
                 /\ (~response'[p].ok /\ response'[p].error \in ThrottlingMessages) =>
                       /\ state'.consecutive_failures = state.consecutive_failures + 1
                       /\ state'.current_backoff =
                              C3_BackoffOf(state.consecutive_failures + 1)
       ]_vars

\* C3 witness: the seventh consecutive throttling failure, reached in a
\* second call, has brought the backoff to the cap.
C3_Witness ==
    /\ enabled
    /\ state.consecutive_failures = 7
    /\ state.current_backoff = 60
    /\ \E p \in Callers : pc[p] = "sleep" /\ invoked[p] = 2

\* C4: an admitted call never invokes the operation more than 5 times; a
\* backoff sleep separates consecutive attempts; a call whose attempts
\* were all throttled ends after exactly 5 invocations and 4 sleeps by
\* raising the operation's failure, not RateLimitExceeded.
C4_Retries ==
    \A p \in Callers :
        enabled =>
            /\ invoked[p] <= 5
            /\ pc[p] = "invoke" => slept[p] = invoked[p]
            /\ pc[p] = "sleep" => slept[p] = invoked[p]
            /\ (pc[p] = "idle" /\ invoked[p] >= 1) => slept[p] = invoked[p] - 1
            /\ (pc[p] = "idle" /\ ~response[p].ok
                    /\ response[p].error \in ThrottlingMessages) =>
                  /\ invoked[p] = 5
                  /\ slept[p] = 4
                  /\ outcome[p] = Raised(response[p].error)

\* C4 witness: a call has ended on its fifth throttled attempt.
C4_Witness ==
    \E p \in Callers :
        /\ enabled
        /\ pc[p] = "idle"
        /\ invoked[p] = 5
        /\ slept[p] = 4
        /\ outcome[p].kind = "raised"
        /\ outcome[p].error \in ThrottlingMessages

\* C5: an invocation that fails with a message that does not indicate
\* throttling ends the call at once with that failure: no sleep, no further
\* attempt, consecutive_failures and current_backoff unchanged.
C5_OtherFailure ==
    [][\A p \in Callers :
          (InvocationStep(p) /\ ~response'[p].ok
              /\ response'[p].error \notin ThrottlingMessages) =>
                /\ pc'[p] = "idle"
                /\ outcome'[p] = Raised(response'[p].error)
                /\ slept'[p] = slept[p]
                /\ attempt'[p] = attempt[p]
                /\ state' = state
    ]_vars

\* C5 witness: a call ended on a failure that is not throttling at its
\* first invocation, with the backoff left by earlier throttling in place.
C5_Witness ==
    \E p \in Callers :
        /\ enabled
        /\ pc[p] = "idle"
        /\ outcome[p] = Raised(MsgTimeout)
        /\ invoked[p] = 1
        /\ slept[p] = 0
        /\ state.consecutive_failures > 0
        /\ state.current_backoff > 0

\* how a finished call of caller p ended
C6_EndedOneWay(p) ==
    \/ /\ outcome[p].kind = "returned"
       /\ invoked[p] >= 1
       /\ response[p].ok
       /\ outcome[p].value = response[p].value
    \/ /\ outcome[p].kind = "RateLimitExceeded"
       /\ invoked[p] = 0
    \/ /\ outcome[p].kind = "raised"
       /\ invoked[p] >= 1
       /\ ~response[p].ok
       /\ outcome[p].error = response[p].error

\* C6: every call of execute ends, and it ends in exactly one of three
\* ways: with the result of a successful invocation, with RateLimitExceeded
\* and no invocation, or with the operation's failure after at least one
\* invocation.
C6_Terminates ==
    /\ \A p \in Callers : [](pc[p] # "idle" => <>(pc[p] = "idle"))
    /\ [](\A p \in Callers :
             (pc[p] = "idle" /\ outcome[p] # NoOutcome) => C6_EndedOneWay(p))
    /\ [](\A p \in Callers :
             (pc[p] # "idle" \/ invoked[p] > 0) =>
                 (pc[p] = "idle" <=> outcome[p] # NoOutcome))

\* C6 witness: one call ended with RateLimitExceeded and the other with the
\* operation's failure after retries.
C6_Witness ==
    \E p, q \in Callers :
        /\ enabled
        /\ pc[p] = "idle" /\ outcome[p] = Refused
        /\ pc[q] = "idle" /\ outcome[q].kind = "raised" /\ invoked[q] > 1

\* C7: the lock is held only by a caller in its admission step: never by a
\* caller that is invoking the operation, sleeping, or done.
C7_LockScope ==
    /\ lock # NoCaller => pc[lock] = "locked"
    /\ \A p \in Callers : pc[p] = "locked" => lock = p

\* C7 witness: one caller is in a backoff sleep while the other holds the
\* lock for its admission.
C7_Witness ==
    \E p, q \in Callers :
        /\ pc[p] = "sleep"
        /\ pc[q] = "locked"
        /\ lock = q

----------------------------------------------------------------------------
(* Properties of DataFetcher.get_analysis_with_cache *)

\* the bars the cache can hand out at time now for the last 86400 s: those
\* of the hot tier's buckets, when caching is on and the tier answers
C8_Cached(now) ==
    IF cacheEnabled /\ hotUp
    THEN {b \in UNION {{hot[d].bars[i] : i \in 1 .. Len(hot[d].bars)} : d \in DOMAIN hot} :
             now - 86400 <= b.timestamp /\ b.timestamp <= now}
    ELSE {}

\* C8: a get_analysis_with_cache call in which execute raised
\* RateLimitExceeded (in either of its two execute calls) returns a result
\* and does not raise: the OHLCV of the cached bar with the greatest
\* timestamp in [now - 86400, now], with from_cache true, cache_age_seconds
\* = now - that timestamp and a warning; or, when the cache has no bar in
\* that window to hand out, an 'error' field with from_cache true and no
\* OHLCV field.
C8_Fallback ==
    [][(fpc # "idle" /\ pc[Fetcher] = "idle" /\ outcome[Fetcher] = Refused
            /\ fpc' # fpc) =>
          /\ fpc' = "idle"
          /\ IF C8_Cached(clock) # {}
             THEN \E b \in C8_Cached(clock) :
                     /\ \A c \in C8_Cached(clock) : c.timestamp <= b.timestamp
                     /\ DOMAIN result' = {"open", "high", "low", "close", "volume",
                                          "from_cache", "cache_age_seconds",
                                          "cache_warning"}
                     /\ result'.open = b.open /\ result'.high = b.high
                     /\ result'.low = b.low /\ result'.close = b.close
                     /\ result'.volume = b.volume
                     /\ result'.from_cache = TRUE
                     /\ result'.cache_age_seconds = clock - b.timestamp
             ELSE /\ DOMAIN result' = {"error", "from_cache"}
                  /\ result'.from_cache = TRUE
    ]_vars

\* C8 witness: after RateLimitExceeded the call returned, from two cached
\* bars inside the window, the newer one, which is not new.
C8_Witness ==
    /\ fpc = "idle"
    /\ outcome[Fetcher] = Refused
    /\ Cardinality(C8_Cached(clock)) = 2
    /\ "cache_age_seconds" \in DOMAIN result
    /\ result.cache_age_seconds > 0
    /\ \E b \in C8_Cached(clock) : b.timestamp < clock - result.cache_age_seconds

\* C9: a result whose from_cache is false carries OHLCV values obtained
\* from the provider during the call that returned it.
C9_FreshIsFetched ==
    (fpc = "idle" /\ "from_cache" \in DOMAIN result /\ result.from_cache = FALSE) =>
        ohlcvFrom = "provider"

\* C10: every result of get_analysis_with_cache contains the OHLCV fields
\* or an 'error' field.
C10_ResultOrError ==
    (fpc = "idle" /\ result # NoResult) =>
        \/ {"open", "high", "low", "close", "volume"} \subseteq DOMAIN result
        \/ "error" \in DOMAIN result

----------------------------------------------------------------------------
(* Properties of DataFetcher.get_current_bar *)

\* the bars of a list, as a set
BarsOf(bars) == {bars[i] : i \in 1 .. Len(bars)}

\* what cache.get answers over the hour before now
C11_Lookup(now) ==
    CacheGet(cacheEnabled, hot, cold, hotUp, coldUp, TimeRange(now - 3600, now), now)

----------------------------------------------------------------------------
(* Properties of CacheManager.put and CacheManager.get *)

\* the range holds the timestamp of every bar of the list
Covers(r, bars) == \A b \in BarsOf(bars) : TimeRangeContains(r, b.timestamp)

\* the step is a call of get that answers
GetStep ==
    /\ lastCall'.op = "get"
    /\ opsLeft' = opsLeft - 1
    /\ hotUp' = hotUp /\ coldUp' = coldUp

\* the step is a call of put
PutStep ==
    /\ lastCall'.op = "put"
    /\ opsLeft' = opsLeft - 1
    /\ hotUp' = hotUp /\ coldUp' = coldUp

\* C12: a successful put of bars with distinct timestamps on a cache that
\* holds nothing, followed by a get over a range covering all of them,
\* returns exactly those bars in timestamp order, each once, whichever tier
\* each bar went to.
C12_RoundTrip ==
    [][(/\ lastCall.op = "put"
        /\ opsLeft = CacheOps - 1
        /\ lastCall.ok
        /\ DistinctTimestamps(lastCall.bars)
        /\ GetStep
        /\ Covers(lastCall'.time_range, lastCall.bars))
       => /\ Len(lastCall'.result) = Len(lastCall.bars)
          /\ BarsOf(lastCall'.result) = BarsOf(lastCall.bars)
          /\ \A i \in 1 .. Len(lastCall'.result) - 1 :
                 lastCall'.result[i].timestamp < lastCall'.result[i + 1].timestamp
      ]_vars

\* a get right after the first put returned an old bar and a recent one,
\* which the put had given recent first and which lie one in each tier
C12_Witness ==
    /\ lastCall.op = "get"
    /\ opsLeft = CacheOps - 2
    /\ lastCall.result = <<Bar(ColdA, VersionQuote(1)), Bar(CrossingA, VersionQuote(2))>>
    /\ DayOf(CrossingA) \in DOMAIN hot
    /\ hot[DayOf(CrossingA)].bars = <<Bar(CrossingA, VersionQuote(2))>>
    /\ MonthOf(ColdA) \in DOMAIN cold
    /\ cold[MonthOf(ColdA)] = <<Bar(ColdA, VersionQuote(1))>>

\* the timestamps of a list of bars
TimestampsOf(bars) == {b.timestamp : b \in BarsOf(bars)}

\* a range that covers every bar of the model
AllTime == TimeRange(0, StartTime + (CacheTicks + 1) * DayTick)

\* C13: the hot tier's store merges with what the day bucket already holds:
\* after store(key, A) and then store(key, B) with A and B of one day, a
\* retrieve over a covering range returns one bar for every timestamp of
\* A and of B, with B's values where both have the timestamp; no bar of A
\* whose timestamp B lacks is lost.
C13_HotMerge ==
    [][(PutStep /\ cacheEnabled /\ hotUp /\ HotPart(lastCall'.bars, clock) # << >>)
       => LET A == HotRetrieve(hot, hotUp, AllTime)
              B == HotPart(lastCall'.bars, clock)
              days == {DayOf(t) : t \in TimestampsOf(B)}
              kept == {a \in BarsOf(A) : DayOf(a.timestamp) \in days
                                           /\ a.timestamp \notin TimestampsOf(B)}
              after == SelectSeq(HotRetrieve(hot', hotUp, AllTime),
                                 LAMBDA b : DayOf(b.timestamp) \in days)
          IN  /\ BarsOf(after) = BarsOf(B) \cup kept
              /\ Len(after) = Cardinality(TimestampsOf(B) \cup {a.timestamp : a \in kept})
      ]_vars

\* the bars a month bucket of the cold tier holds
ColdBucket(c, m) == IF m \in DOMAIN c THEN c[m] ELSE << >>

C15_ReadYourWrite ==
    [][(/\ lastCall.op = "put"
        /\ lastCall.ok
        /\ GetStep
        /\ hotUp /\ coldUp
        /\ Covers(lastCall'.time_range, lastCall.bars))
       => BarsOf(lastCall.bars) \subseteq BarsOf(lastCall'.result)
      ]_vars

\* a get, a day after a put gave a timestamp new values, returns them: the
\* hot tier still holds the values of an earlier put for it
C15_Witness ==
    /\ lastCall.op = "get"
    /\ opsLeft = CacheOps - 3
    /\ Bar(CrossingA, VersionQuote(2)) \in BarsOf(lastCall.result)
    /\ DayOf(CrossingA) \in DOMAIN hot
    /\ Bar(CrossingA, VersionQuote(1)) \in BarsOf(hot[DayOf(CrossingA)].bars)
    /\ Bar(CrossingA, VersionQuote(2)) \in BarsOf(ColdBucket(cold, MonthOf(CrossingA)))

\* C16: once two put calls that ran side by side for one key have both
\* returned success, a get over a covering range returns a bar for every
\* timestamp either call wrote, and for a timestamp both wrote the values
\* of one of the two.
C16_ConcurrentPuts ==
    [][(/\ \A t \in PutTasks : puts[t].pc = "done" /\ puts[t].ok
        /\ GetStep
        /\ \A t \in PutTasks : Covers(lastCall'.time_range, puts[t].bars))
       => LET written == UNION {BarsOf(puts[t].bars) : t \in PutTasks}
          IN  \A w \in written :
                 \E b \in BarsOf(lastCall'.result) :
                    b.timestamp = w.timestamp /\ b \in written
      ]_vars

\* the timestamps inside a range of the bars a tier that answers holds
HotIn(r) ==
    IF hotUp
    THEN {t \in UNION {TimestampsOf(hot[d].bars) : d \in DOMAIN hot} :
             TimeRangeContains(r, t)}
    ELSE {}

ColdIn(r) ==
    IF coldUp
    THEN {t \in UNION {TimestampsOf(cold[m]) : m \in DOMAIN cold} :
             TimeRangeContains(r, t)}
    ELSE {}

\* C20: a result of get that is not absent is strictly increasing in
\* timestamp (no two bars share one) and holds only bars with range.start
\* <= timestamp <= range.end; a timestamp both tiers hold appears exactly
\* once; get returns absent exactly when neither tier yields a bar in the
\* range.
C20_GetResult ==
    [][GetStep =>
          LET r == lastCall'.time_range
              out == lastCall'.result
          IN  /\ \A i \in 1 .. Len(out) - 1 : out[i].timestamp < out[i + 1].timestamp
              /\ \A i \in 1 .. Len(out) : TimeRangeContains(r, out[i].timestamp)
              /\ \A t \in HotIn(r) \cap ColdIn(r) :
                     Cardinality({i \in 1 .. Len(out) : out[i].timestamp = t}) = 1
              /\ (out = None) <=> (HotIn(r) \cup ColdIn(r) = {})
      ]_vars

\* a get over a range that ends at a timestamp both tiers hold, and that
\* leaves out a later bar of the hot tier, returned the one bar
C20_Witness ==
    /\ lastCall.op = "get"
    /\ opsLeft = 0
    /\ lastCall.time_range = TimeRange(0, CrossingA)
    /\ Len(lastCall.result) = 1
    /\ HotIn(AllTime) = {CrossingA, CrossingB}
    /\ ColdIn(AllTime) = {CrossingA}

----------------------------------------------------------------------------
(* Properties of CacheManager.find_gaps *)

\* the step is a call of find_gaps
FindGapsStep ==
    /\ lastCall'.op = "find_gaps"
    /\ opsLeft' = opsLeft - 1
    /\ hotUp' = hotUp /\ coldUp' = coldUp

\* the timestamps inside a range of the bars the tiers hold
StoredIn(r) ==
    {t \in UNION ({TimestampsOf(hot[d].bars) : d \in DOMAIN hot}
                    \cup {TimestampsOf(cold[m]) : m \in DOMAIN cold}) :
        TimeRangeContains(r, t)}

\* every tier that get asks for a range fails to answer
RetrievalFails(r, now) ==
    /\ ~hotUp
    /\ r.start_timestamp < now - HotTierDays * DaySeconds => ~coldUp

\* C17: find_gaps returns exactly one gap, the requested range, whenever
\* caching is disabled, no cached bar lies inside the range, or retrieval
\* from the tiers fails.
C17_WholeRange ==
    [][FindGapsStep =>
          LET r == lastCall'.time_range
          IN  (~cacheEnabled \/ StoredIn(r) = {} \/ RetrievalFails(r, clock))
                 => lastCall'.gaps = <<r>>
      ]_vars

\* find_gaps answered the whole range while the hot tier, which holds a bar
\* inside the range, was not answering
C17_Witness ==
    /\ lastCall.op = "find_gaps"
    /\ opsLeft = 0
    /\ cacheEnabled
    /\ ~hotUp
    /\ StoredIn(lastCall.time_range) # {}
    /\ lastCall.gaps = <<lastCall.time_range>>

\* C18: with at least one bar cached inside the range, find_gaps returns
\* these gaps and no others: [range.start, first_ts - 1] iff first_ts >
\* range.start; [prev_ts + interval, next_ts - interval] for each adjacent
\* pair of cached timestamps more than 2 * interval apart, none for a pair
\* at most 2 * interval apart; [last_ts + 1, range.end] iff last_ts <
\* range.end.  Timestamps T, T + 300, T + 1500 at 300 s give the one
\* internal gap [T + 600, T + 1200].
C18_Gaps ==
    [][(FindGapsStep /\ cacheEnabled /\ hotUp /\ StoredIn(lastCall'.time_range) # {})
       => LET r == lastCall'.time_range
              S == StoredIn(r)
              I == IntervalSeconds(keyInterval)
              first_ts == CHOOSE t \in S : \A u \in S : t <= u
              last_ts == CHOOSE t \in S : \A u \in S : u <= t
              leading == IF first_ts > r.start_timestamp
                         THEN {TimeRange(r.start_timestamp, first_ts - 1)} ELSE {}
              internal == {TimeRange(p + I, n - I) :
                              <<p, n>> \in {x \in S \X S :
                                  /\ x[1] < x[2]
                                  /\ ~\E u \in S : x[1] < u /\ u < x[2]
                                  /\ x[2] - x[1] > 2 * I}}
              trailing == IF last_ts < r.end_timestamp
                          THEN {TimeRange(last_ts + 1, r.end_timestamp)} ELSE {}
              gaps == lastCall'.gaps
          IN  /\ {gaps[i] : i \in 1 .. Len(gaps)} = leading \cup internal \cup trailing
              /\ Len(gaps) = Cardinality(leading \cup internal \cup trailing)
              /\ (/\ S = {GridStart, GridStart + 300, GridStart + 1500}
                  /\ I = 300)
                 => internal = {TimeRange(GridStart + 600, GridStart + 1200)}
      ]_vars

\* find_gaps over [T, T + 1500] at 300 s, with T, T + 300 and T + 1500
\* cached, answered the one gap [T + 600, T + 1200]
C18_Witness ==
    /\ lastCall.op = "find_gaps"
    /\ keyInterval = "5m"
    /\ lastCall.time_range = TimeRange(GridStart, GridStart + 1500)
    /\ StoredIn(lastCall.time_range) = {GridStart, GridStart + 300, GridStart + 1500}
    /\ hotUp
    /\ lastCall.gaps = <<TimeRange(GridStart + 600, GridStart + 1200)>>

----------------------------------------------------------------------------
(* Properties of CacheManager.aggregate_timeframe *)

\* the start of the target interval a timestamp lies in
BucketFloor(timestamp, target_seconds) ==
    (timestamp \div target_seconds) * target_seconds

\* C19: aggregate_timeframe returns one bar for each distinct bucket
\* floor(timestamp / target_seconds) * target_seconds, in ascending bucket
\* order, with timestamp the bucket floor, open the open of the bucket's
\* earliest bar, close the close of its latest bar, high the greatest high,
\* low the least low and volume the sum of the volumes; twelve consecutive
\* 5-minute bars of one hour give a single such bar, and no bars give none.
C19_Aggregate ==
    lastCall.op = "aggregate_timeframe" =>
        LET source == lastCall.source_bars
            S == IntervalSeconds(lastCall.target_interval)
            out == lastCall.result
            buckets == {BucketFloor(b.timestamp, S) : b \in BarsOf(source)}
            members(k) == SelectSeq(source, LAMBDA b : BucketFloor(b.timestamp, S) = k)
            earliest(k) == SelectSeq(members(k), LAMBDA b :
                               \A m \in BarsOf(members(k)) : b.timestamp <= m.timestamp)
            latest(k) == SelectSeq(members(k), LAMBDA b :
                             \A m \in BarsOf(members(k)) : m.timestamp <= b.timestamp)
        IN  /\ Len(out) = Cardinality(buckets)
            /\ {out[i].timestamp : i \in 1 .. Len(out)} = buckets
            /\ \A i \in 1 .. Len(out) - 1 : out[i].timestamp < out[i + 1].timestamp
            /\ \A i \in 1 .. Len(out) :
                   LET k == out[i].timestamp
                   IN  /\ out[i].open = earliest(k)[1].open
                       /\ out[i].close = latest(k)[Len(latest(k))].close
                       /\ \E m \in BarsOf(members(k)) : out[i].high = m.high
                       /\ \A m \in BarsOf(members(k)) : m.high <= out[i].high
                       /\ \E m \in BarsOf(members(k)) : out[i].low = m.low
                       /\ \A m \in BarsOf(members(k)) : out[i].low <= m.low
                       /\ out[i].volume = SumVolume(members(k))
            /\ (source = TwelveBars /\ S = 3600) => Len(out) = 1
            /\ source = << >> => out = << >>

\* the twelve 5-minute bars of an hour were aggregated to the hour: one bar
\* with the first open, the twelfth close, the extrema and the sum
C19_Witness ==
    /\ lastCall.op = "aggregate_timeframe"
    /\ lastCall.source_bars = TwelveBars
    /\ lastCall.target_interval = "1h"
    /\ lastCall.result = <<[timestamp |-> AggStart, open |-> 100, high |-> 126,
                            low |-> 86, close |-> 116, volume |-> 186]>>

----------------------------------------------------------------------------
(* Properties of CacheManager.put, of the tiers' failures and of           *)
(* migrate_to_cold_tier                                                    *)

\* the bars a tier's bucket holds, as a set
HeldIn(tier, k) == IF k \in DOMAIN tier THEN BarsOf(tier[k]) ELSE {}

HotHeld(h, d) == IF d \in DOMAIN h THEN BarsOf(h[d].bars) ELSE {}

\* C21: for non-empty input, put sends each bar with timestamp >= cutoff
\* (now - hot_tier_days) only to the hot tier and each older bar only to the
\* cold tier; a tier whose partition is empty is not written; a failed hot
\* write does not prevent the cold write from being attempted; put returns
\* true iff every attempted tier write returned true.
C21_Partition ==
    [][(PutStep /\ cacheEnabled /\ lastCall'.bars # << >>) =>
          LET put == lastCall'
              cutoff == put.now - HotTierDays * DaySeconds
              recent == {b \in BarsOf(put.bars) : b.timestamp >= cutoff}
              older == {b \in BarsOf(put.bars) : b.timestamp < cutoff}
              hotWritten == recent # {} /\ hotUp
              coldWritten == older # {} /\ coldUp
          IN  /\ hotWritten => \A b \in recent : b \in HotHeld(hot', DayOf(b.timestamp))
              /\ \A d \in DOMAIN hot' :
                     HotHeld(hot', d) \cap older \subseteq HotHeld(hot, d)
              /\ coldWritten => \A b \in older : b \in HeldIn(cold', MonthOf(b.timestamp))
              /\ \A m \in DOMAIN cold' :
                     HeldIn(cold', m) \cap recent \subseteq HeldIn(cold, m)
              /\ ~hotWritten => hot' = hot
              /\ ~coldWritten => cold' = cold
              /\ put.ok <=> /\ recent # {} => hotUp
                            /\ older # {} => coldUp
      ]_vars

\* a put of a recent and an old bar, while the hot tier did not answer,
\* returned false and left the old bar in the cold tier
C21_Witness ==
    /\ lastCall.op = "put"
    /\ Len(lastCall.bars) = 2
    /\ ~hotUp
    /\ coldUp
    /\ opsLeft = CacheOps - 2
    /\ ~lastCall.ok
    /\ hot = << >>
    /\ \E b \in BarsOf(lastCall.bars) :
           /\ b.timestamp = ColdA
           /\ b \in HeldIn(cold, MonthOf(ColdA))
    /\ \E b \in BarsOf(lastCall.bars) : b.timestamp = CrossingB

\* a call of a tier or of the cache manager that may meet failing clients
TierStep(op) ==
    /\ opsLeft' = opsLeft - 1
    /\ lastCall'.op = op

\* C22: no tier operation raises to its caller: on any I/O error store
\* returns false, retrieve returns absent and delete_old_data returns 0;
\* CacheManager.get, put and migrate_to_cold_tier never raise either.
C22_NoRaise ==
    [][/\ \A op \in {"hot_store", "hot_retrieve", "cold_store", "cold_retrieve",
                     "put", "get", "migrate"} :
              TierStep(op) => ~lastCall'.raised
       /\ \A op \in {"hot_store", "cold_store"} :
              TierStep(op) /\ lastCall'.errored => lastCall'.value = FALSE
       /\ \A op \in {"hot_retrieve", "cold_retrieve"} :
              TierStep(op) /\ lastCall'.errored => lastCall'.value = None
       /\ TierStep("migrate") /\ lastCall'.errored => lastCall'.value = 0
      ]_vars

\* the hot tier's documents written before the cutoff of a time
WrittenBefore(h, now) ==
    {d \in DOMAIN h : h[d].cached_at < now - HotTierDays * DaySeconds}

C24_Disabled ==
    [][~cacheEnabled =>
          /\ GetStep => lastCall'.result = None
          /\ PutStep => ~lastCall'.ok
          /\ FindGapsStep => lastCall'.gaps = <<lastCall'.time_range>>
          /\ (GetStep \/ PutStep \/ FindGapsStep) => hot' = hot /\ cold' = cold
      ]_vars

\* with caching disabled and a bar of the range in each tier, get answered
\* absent
C24_Witness ==
    /\ ~cacheEnabled
    /\ lastCall.op = "get"
    /\ lastCall.result = None
    /\ lastCall.time_range = TimeRange(0, lastCall.now)
    /\ TierBar(TierA) \in HeldIn(cold, MonthOf(TierA))
    /\ TierBar(TierB) \in HotHeld(hot, DayOf(TierB))

----------------------------------------------------------------------------
(* Properties of CacheKey *)

\* C25: for every CacheKey k (any symbol, screener and exchange strings and
\* any Interval), CacheKey.from_string(k.to_string()) equals k.
C25_RoundTrip ==
    [][lastCall'.op = "round_trip" =>
          lastCall'.parsed = [raised |-> FALSE, key |-> lastCall'.key]]_vars

----------------------------------------------------------------------------
(* Properties of the windows over time *)

\* the admissions within the span of time that ends with admission i
AdmittedWithin(span, i) ==
    {j \in 1 .. Len(admissions.times) :
        /\ admissions.times[i] - span < admissions.times[j]
        /\ admissions.times[j] <= admissions.times[i]}

\* C26: in any time interval of 60 seconds, wherever it lies relative to
\* the limiter's window resets, at most max_per_minute execute calls are
\* admitted, and at most max_per_hour in any interval of 3600 seconds.
C26_AnyInterval ==
    \A i \in 1 .. Len(admissions.times) :
        /\ Cardinality(AdmittedWithin(MinuteWindow, i)) <= MaxPerMinute
        /\ Cardinality(AdmittedWithin(HourWindow, i)) <= MaxPerHour

\* C27: once requests_this_hour has reached max_per_hour, every execute
\* call is refused with RateLimitExceeded, also after minute-window resets,
\* until 3600 seconds have elapsed since the hour window's start; the first
\* check at or after that time resets the hour counter to zero and admission
\* succeeds again.  A window's counter is reset only by a check made at or
\* after its expiry, never in between.
C27_HourCeiling ==
    [][/\ \A p \in Callers :
              (AdmissionStep(p) /\ state.requests_this_hour >= MaxPerHour) =>
                  /\ clock' - state.hour_window_start < HourWindow =>
                         pc'[p] = "idle" /\ outcome'[p] = Refused
                  /\ clock - state.hour_window_start >= HourWindow =>
                         pc'[p] = "invoke" /\ state'.requests_this_hour = 1
       /\ state'.requests_this_hour < state.requests_this_hour =>
              /\ \E p \in Callers : AdmissionStep(p)
              /\ clock' - state.hour_window_start >= HourWindow
       /\ state'.requests_this_minute < state.requests_this_minute =>
              /\ \E p \in Callers : AdmissionStep(p)
              /\ clock' - state.minute_window_start >= MinuteWindow
      ]_vars

\* C28: with rate limiting disabled, execute performs no admission check (it
\* never raises RateLimitExceeded and never changes the window counters)
\* and goes on with the retry loop: a throttling failure of the operation
\* is retried with backoff up to 5 attempts and a success resets the
\* failure count and the backoff.
C28_DisabledRetries ==
    [][~enabled =>
          \A p \in Callers :
              /\ outcome'[p] # Refused
              /\ state'.requests_this_minute = state.requests_this_minute
              /\ state'.requests_this_hour = state.requests_this_hour
              /\ (pc[p] # "idle" /\ pc'[p] = "idle" /\ outcome'[p].kind = "raised"
                   /\ outcome'[p].error \in ThrottlingMessages) =>
                     /\ invoked'[p] = MaxRetries
                     /\ slept'[p] = MaxRetries - 1
              /\ (pc[p] # "idle" /\ pc'[p] = "idle" /\ outcome'[p].kind = "returned") =>
                     state'.consecutive_failures = 0 /\ state'.current_backoff = 0
      ]_vars

----------------------------------------------------------------------------
(* Properties of the cold tier's store and of the copy get prefers *)

\* the months of the bars of a list
MonthSet(bars) == {MonthOf(b.timestamp) : b \in BarsOf(bars)}

\* C29: when a cold-tier store call spans several month buckets and writing
\* one of them fails, the tier still attempts every remaining bucket,
\* returns false, and leaves the buckets already written in place.
C29_PartialFailure ==
    [][(/\ TierStep("cold_store")
        /\ coldUp
        /\ Cardinality(MonthSet(lastCall'.bars)) > 1
        /\ lastCall'.faults.write_fails \cap MonthSet(lastCall'.bars) # {}) =>
          /\ lastCall'.attempted = MonthSet(lastCall'.bars)
          /\ lastCall'.value = FALSE
          /\ \A b \in BarsOf(lastCall'.bars) :
                 MonthOf(b.timestamp) \notin lastCall'.faults.write_fails =>
                     b \in HeldIn(cold', MonthOf(b.timestamp))
      ]_vars

\* C30: when both tiers hold a bar with the same timestamp inside the
\* requested range, get returns the hot-tier copy of that bar.
C30_HotCopy ==
    [][(GetStep /\ cacheEnabled) =>
          LET r == lastCall'.time_range
          IN  \A t \in HotIn(r) \cap ColdIn(r) :
                  \A b \in HotHeld(hot, DayOf(t)) :
                      b.timestamp = t => b \in BarsOf(lastCall'.result)
      ]_vars

----------------------------------------------------------------------------
(* Properties of the fetcher while the tiers are away *)

\* the bars the hot tier's buckets hold, whether or not the tier answers
HotBars == UNION {BarsOf(hot[d].bars) : d \in DOMAIN hot}

\* C31: while neither tier answers, get_current_bar does not take a bar
\* from the cache but goes to the provider through execute, and when that
\* execute call returns a bar, get_current_bar returns this bar (the call
\* goes on to the analysis holding it) although it could not be stored:
\* the tiers are left as they were.
C31_BestEffort ==
    [][(~hotUp /\ ~coldUp) =>
         /\ (fpc = "idle" /\ fpc' # "idle") => (fpc' = "bar" /\ bar' = None)
         /\ (fpc = "bar" /\ pc[Fetcher] = "idle" /\ outcome[Fetcher].kind = "returned"
                 /\ fpc' # fpc) =>
                /\ fpc' = "analysis"
                /\ bar' = outcome[Fetcher].value
                /\ bar' # None
                /\ ohlcvFrom' = "provider"
                /\ hot' = hot /\ cold' = cold
      ]_vars

\* C31 witness: with both tiers away and a bar of the last hour held by the
\* hot tier, the provider's later bar was returned and was not stored.
C31_Witness ==
    /\ ~hotUp /\ ~coldUp
    /\ fpc = "analysis"
    /\ ohlcvFrom = "provider"
    /\ bar # None
    /\ bar \notin HotBars
    /\ \E b \in HotBars : clock - BarLookback <= b.timestamp /\ b.timestamp < bar.timestamp

----------------------------------------------------------------------------
(* Properties of the admissions a get_analysis_with_cache call consumes *)

\* the admissions consumed since the fetcher's current call began
CallAdmissions == Len(admissions.times) - admissions.before

\* a get_analysis_with_cache call returns after its execute(fetch_analysis)
AnalysisEnds == fpc = "analysis" /\ fpc' = "idle"

\* C32 as stated: a call that found a cached bar within the last hour has
\* consumed exactly one admission when it returns, and a call that missed
\* the cache and fetched its bar has consumed exactly two.
C32_Savings ==
    [][AnalysisEnds =>
          CallAdmissions = IF ohlcvFrom = "cache" THEN 1 ELSE 2
      ]_vars

\* C32 amended: a call finds a cached bar within the last hour exactly when
\* it makes no execute call for the bar, and then makes one execute call
\* in all; a call that missed and fetched its bar makes two.  With rate
\* limiting enabled each of these execute calls consumes one admission
\* unless it is refused (the first of a miss was admitted, or there would
\* be no bar); with rate limiting disabled no call consumes any.
C32_Admissions ==
    [][/\ (fpc = "idle" /\ fpc' # "idle") =>
            /\ (C11_Lookup(clock) # None) <=> (fpc' = "analysis")
            /\ (C11_Lookup(clock) # None) <=> (ohlcvFrom' = "cache")
            /\ CallAdmissions' = 0
       /\ (fpc = "analysis" /\ fpc' = "analysis") =>
            ~(pc[Fetcher] = "idle" /\ pc'[Fetcher] # "idle")
       /\ AnalysisEnds =>
            /\ ohlcvFrom \in {"cache", "provider"}
            /\ CallAdmissions =
                  IF ~enabled THEN 0
                  ELSE (IF ohlcvFrom = "cache" THEN 0 ELSE 1)
                       + (IF outcome[Fetcher] = Refused THEN 0 ELSE 1)
      ]_vars

\* C32 witness: after a call that missed, a call within the hour found the
\* cached bar and returned a fresh result on one admission.
C32_Witness ==
    /\ enabled
    /\ fpc = "idle"
    /\ fetchesLeft = SavingCalls - 2
    /\ ohlcvFrom = "cache"
    /\ "from_cache" \in DOMAIN result
    /\ ~result.from_cache
    /\ admissions.before >= 1
    /\ CallAdmissions = 1

----------------------------------------------------------------------------
(* Properties of the invocations the window counters cover *)

\* the invocations made so far in the callers' current or last calls
RECURSIVE InvokedBy(_)
InvokedBy(S) ==
    IF S = {} THEN 0
    ELSE LET p == CHOOSE x \in S : TRUE
         IN  invoked[p] + InvokedBy(S \ {p})

----------------------------------------------------------------------------
(* Properties of the gaps find_gaps returns *)

\* the pairs of adjacent timestamps of a set
AdjacentIn(S) ==
    {x \in S \X S : x[1] < x[2] /\ ~\E u \in S : x[1] < u /\ u < x[2]}

\* C34: find_gaps misses no absent bar between cached bars: for adjacent
\* cached timestamps prev_ts < next_ts inside the range and every k >= 1
\* with prev_ts + k * interval < next_ts, the timestamp prev_ts + k *
\* interval lies inside some returned gap.
C34_NoMissedBar ==
    [][(FindGapsStep /\ cacheEnabled /\ hotUp /\ StoredIn(lastCall'.time_range) # {})
       => LET r == lastCall'.time_range
              I == IntervalSeconds(keyInterval)
              gaps == lastCall'.gaps
          IN  \A x \in AdjacentIn(StoredIn(r)) :
                  \A k \in 1 .. ((x[2] - x[1]) \div I) :
                      x[1] + k * I < x[2] =>
                          \E i \in 1 .. Len(gaps) :
                              TimeRangeContains(gaps[i], x[1] + k * I)
      ]_vars

C34_Tolerance ==
    [][(FindGapsStep /\ cacheEnabled /\ hotUp /\ StoredIn(lastCall'.time_range) # {})
       => LET r == lastCall'.time_range
              S == StoredIn(r)
              I == IntervalSeconds(keyInterval)
              gaps == lastCall'.gaps
              Reported(t) == \E i \in 1 .. Len(gaps) : TimeRangeContains(gaps[i], t)
          IN  /\ \A x \in AdjacentIn(S) :
                    \A k \in 1 .. ((x[2] - x[1]) \div I) :
                        IF x[2] - x[1] > 2 * I
                        THEN x[1] + k * I <= x[2] - I => Reported(x[1] + k * I)
                        ELSE x[1] + k * I < x[2] => ~Reported(x[1] + k * I)
              /\ gaps = << >> =>
                    /\ r.start_timestamp \in S
                    /\ r.end_timestamp \in S
                    /\ \A x \in AdjacentIn(S) : x[2] - x[1] <= 2 * I
      ]_vars

\* C34 witness: find_gaps answered that nothing is missing over a range
\* whose two cached bars are 2 * interval apart, the bar between them
\* absent.
C34_Witness ==
    /\ lastCall.op = "find_gaps"
    /\ cacheEnabled /\ hotUp
    /\ lastCall.gaps = << >>
    /\ LET S == StoredIn(lastCall.time_range)
           I == IntervalSeconds(keyInterval)
       IN  \E x \in AdjacentIn(S) :
               /\ x[2] - x[1] = 2 * I
               /\ x[1] + I \notin S

\* the timestamps of the cached bars find_gaps is handed by get for a range
CachedIn(r) ==
    TimestampsOf(CacheGet(cacheEnabled, hot, cold, hotUp, coldUp, r, clock))

\* C35: every gap find_gaps returns has start <= end, lies within the
\* requested range and contains no timestamp of a cached bar; the gaps come
\* in ascending order and no two of them overlap.
C35_GapsWellFormed ==
    [][FindGapsStep =>
          LET r == lastCall'.time_range
              gaps == lastCall'.gaps
          IN  /\ \A i \in 1 .. Len(gaps) :
                    /\ gaps[i].start_timestamp <= gaps[i].end_timestamp
                    /\ r.start_timestamp <= gaps[i].start_timestamp
                    /\ gaps[i].end_timestamp <= r.end_timestamp
                    /\ \A t \in CachedIn(r) : ~TimeRangeContains(gaps[i], t)
              /\ \A i, j \in 1 .. Len(gaps) :
                    i < j => gaps[i].end_timestamp < gaps[j].start_timestamp
      ]_vars

\* C35 witness: find_gaps returned a leading, an internal and a trailing
\* gap around three cached bars.
C35_Witness ==
    /\ lastCall.op = "find_gaps"
    /\ Len(lastCall.gaps) = 3
    /\ Cardinality(CachedIn(lastCall.time_range)) = 3
    /\ lastCall.gaps[1].start_timestamp = lastCall.time_range.start_timestamp
    /\ lastCall.gaps[3].end_timestamp = lastCall.time_range.end_timestamp

----------------------------------------------------------------------------
(* Properties of what migrate_to_cold_tier keeps *)

\* C36: migrate_to_cold_tier loses no data: every bar get returned for a
\* range before the migration is returned by get for the same range after
\* it.
C36_NoDataLost ==
    [][TierStep("migrate") =>
          \A r \in TierRanges(clock) :
              BarsOf(CacheGet(cacheEnabled, hot, cold, hotUp, coldUp, r, clock))
                  \subseteq
              BarsOf(CacheGet(cacheEnabled, hot', cold', hotUp, coldUp, r, clock))
      ]_vars

----------------------------------------------------------------------------
(* Properties of the backoff sleeps of one call *)

\* C37: within one execute call whose operation keeps failing with
\* throttling errors, the successive backoff sleep durations never
\* decrease, whatever the other calls on the limiter do.
C37_SleepsGrow ==
    \A p \in Callers :
        \A i \in 1 .. Len(admissions.sleeps[p]) - 1 :
            admissions.sleeps[p][i] <= admissions.sleeps[p][i + 1]

----------------------------------------------------------------------------
(* Properties of aggregate_timeframe under reordering of its input *)

RECURSIVE InTimestampOrder(_)
\* the bars of a set in ascending order of timestamp, the timestamps being
\* distinct
InTimestampOrder(B) ==
    IF B = {} THEN << >>
    ELSE LET b == CHOOSE x \in B : \A y \in B : y.timestamp <= x.timestamp
         IN  Append(InTimestampOrder(B \ {b}), b)

\* C38: for source bars with distinct timestamps the result of
\* aggregate_timeframe does not depend on their order: the call returns
\* what it returns for the same bars in timestamp order (every arrangement
\* of up to MaxAggBars bars is an input of the model).
C38_OrderFree ==
    (/\ lastCall.op = "aggregate_timeframe"
     /\ DistinctTimestamps(lastCall.source_bars))
        => lastCall.result =
               AggregateTimeframe(InTimestampOrder(BarsOf(lastCall.source_bars)),
                                  lastCall.target_interval)

\* C38 witness: the twelve 5-minute bars of an hour, handed over latest
\* first, were aggregated to the hour's bar: the open of the earliest and
\* the close of the latest.
C38_Witness ==
    /\ lastCall.op = "aggregate_timeframe"
    /\ lastCall.target_interval = "1h"
    /\ Len(lastCall.source_bars) = 12
    /\ lastCall.source_bars[1] = TwelveBars[12]
    /\ Len(lastCall.result) = 1
    /\ lastCall.result[1].open = TwelveBars[1].open
    /\ lastCall.result[1].close = TwelveBars[12].close

----------------------------------------------------------------------------
(* Properties of the interval of the fetcher's cache key *)

\* C39: the value of every member of Interval, passed to the data fetcher
\* as the interval string, is resolved to that same member in the cache
\* key.
C39_SameInterval ==
    (lastCall.op = "cache_key" /\ lastCall.interval \in IntervalValues) =>
        lastCall.key.interval = lastCall.interval

====
